---- MODULE Spec2Model ----
(***************************************************************************)
(* git-ai: hunk-level commit splitting.                                    *)
(*                                                                         *)
(* The model follows src/src/utils/hunk-parser.ts (parseDiffIntoHunks),    *)
(* src/src/utils/hunk-applier.ts (snapshot and patch application),         *)
(* src/src/hunk-commit-processor.ts (the per-group commit orchestrator)    *)
(* and the git wrapper src/unnamed/part_010 (git.ts).                      *)
(*                                                                         *)
(* Text is modelled after String.split("\n"): a file content is the        *)
(* non-empty sequence of its lines, so "" is <<"">> and "a\nb\n" is        *)
(* <<"a", "b", "">>.  split and join("\n") are inverse bijections between  *)
(* strings and such sequences, so nothing is lost by this representation.  *)
(***************************************************************************)
EXTENDS Integers, Sequences, FiniteSets, TLC

(***************************************************************************)
(* Bounds of the model.                                                    *)
(***************************************************************************)
\* Total number of hunk references in the classifier's group list.
MaxRefs == 2
\* Number of external failures (fs, git) injected into one run.
MaxFaults == 1
\* Longest file (in lines) whose single change is put through the round trip.
MaxLines == 3

(***************************************************************************)
(* Generic helpers.                                                        *)
(***************************************************************************)
Min(a, b) == IF a < b THEN a ELSE b
Max(a, b) == IF a > b THEN a ELSE b

RECURSIVE SeqToSet(_)
SeqToSet(s) == IF s = <<>> THEN {} ELSE {Head(s)} \cup SeqToSet(Tail(s))

\* The concatenation of a sequence of sequences (Array.prototype.flatMap).
RECURSIVE Flatten(_)
Flatten(ss) == IF ss = <<>> THEN <<>> ELSE Head(ss) \o Flatten(Tail(ss))

\* Array.from(new Set(xs)): first occurrences, in insertion order.
RECURSIVE Dedupe(_)
Dedupe(xs) ==
  IF xs = <<>> THEN <<>>
  ELSE LET init == Dedupe(SubSeq(xs, 1, Len(xs) - 1))
           last == xs[Len(xs)]
       IN IF last \in SeqToSet(init) THEN init ELSE Append(init, last)

(***************************************************************************)
(* Text.                                                                   *)
(***************************************************************************)
\* What a path that holds no file maps to (absent from the tree, the index or
\* the disk); a content is never the empty sequence.
NoFile == <<>>
\* JavaScript's null where a path is expected.
NullPath == "<null>"
\* What reading a JavaScript array outside its bounds yields.
Undefined == "<undefined>"
\* The content "" after split("\n").
EmptyContent == <<"">>

\* Array.prototype.join("\n") followed by split("\n"): undefined joins as "".
Join(lines) ==
  IF lines = <<>> THEN EmptyContent
  ELSE [i \in 1..Len(lines) |-> IF lines[i] = Undefined THEN "" ELSE lines[i]]

\* The content of a newline-terminated text file with the given lines.
TextFile(ls) == IF ls = <<>> THEN EmptyContent ELSE Append(ls, "")

(***************************************************************************)
(* hunk-applier.ts: applyHunk, applyHunksToFile.                           *)
(* A hunk line is [tag, text]: tag is the first character, text the rest.  *)
(***************************************************************************)
\* Lines emitted while walking the hunk's tagged lines (lines 121-133).
RECURSIVE HunkEmit(_)
HunkEmit(hl) ==
  IF hl = <<>> THEN <<>>
  ELSE LET l == Head(hl)
       IN IF l.tag = "+" THEN <<l.text>> \o HunkEmit(Tail(hl))
          ELSE IF l.tag = "-" THEN HunkEmit(Tail(hl))
          ELSE IF l.tag = " " THEN <<l.text>> \o HunkEmit(Tail(hl))
          ELSE HunkEmit(Tail(hl))

\* lines[i] for a 0-based JavaScript index i.
JsAt(lines, i) == IF i >= 0 /\ i < Len(lines) THEN lines[i + 1] ELSE Undefined

\* for (let i = from; i < lines.length; i++) result.push(lines[i])
RECURSIVE CopyFrom(_, _)
CopyFrom(lines, from) ==
  IF from >= Len(lines) THEN <<>>
  ELSE <<JsAt(lines, from)>> \o CopyFrom(lines, from + 1)

applyHunk(lines, hunk) ==
  LET nBefore == Max(0, Min(hunk.oldStart - 1, Len(lines)))
      before == SubSeq(lines, 1, nBefore)
      afterHunkStart == hunk.oldStart - 1 + hunk.oldLines
  IN before \o HunkEmit(hunk.lines) \o CopyFrom(lines, afterHunkStart)

\* [...hunks].sort((a, b) => b.oldStart - a.oldStart): stable, descending.
RECURSIVE InsertDesc(_, _)
InsertDesc(sorted, h) ==
  IF sorted = <<>> THEN <<h>>
  ELSE IF Head(sorted).oldStart >= h.oldStart
       THEN <<Head(sorted)>> \o InsertDesc(Tail(sorted), h)
       ELSE <<h>> \o sorted

\* No sort: the hunks are applied in the order of the list.
SortDesc_InputOrder(hunks) == hunks

RECURSIVE SortDesc(_)
SortDesc(hunks) ==
  IF hunks = <<>> THEN <<>>
  ELSE InsertDesc(SortDesc(SubSeq(hunks, 1, Len(hunks) - 1)), hunks[Len(hunks)])

RECURSIVE ApplyAll(_, _)
ApplyAll(lines, sortedHunks) ==
  IF sortedHunks = <<>> THEN lines
  ELSE ApplyAll(applyHunk(lines, Head(sortedHunks)), Tail(sortedHunks))

applyHunksToFile(originalContent, hunks) ==
  Join(ApplyAll(originalContent, SortDesc(hunks)))

(***************************************************************************)
(* The repository the tool runs in.  What `git diff` prints is git's       *)
(* behaviour, reached through getFullDiff (git.ts): a unified diff with    *)
(* three lines of context, files in path order, the unstaged sections      *)
(* first and the staged ones after them.  A change is described here by    *)
(* an edit script (at: first old line affected, del: lines removed, ins:   *)
(* lines inserted there); the diff is rendered from it.                    *)
(***************************************************************************)
\* Lines of context `git diff` prints around a change (git's default).
Ctx == 3
DevNull == "/dev/null"

\* A line of diff text is [pieces, range]: pieces are consecutive pieces of its
\* text (their concatenation is the line; the empty line has none); range holds
\* the numbers of the "@@ -a,b +c,d @@" the line contains, if it contains one.
NoRange == [given |-> FALSE, oldStart |-> 0, oldCount |-> 0, newStart |-> 0, newCount |-> 0]
TextLine(pieces) == [pieces |-> pieces, range |-> NoRange]
BlankLine == TextLine(<<>>)

\* String facts about the pieces used: the pieces that start with a prefix,
\* and the pieces that a tag character completes to the prefix.
PiecesStarting(prefix) ==
  IF prefix = "diff --git " THEN {"diff --git a/"}
  ELSE IF prefix = "diff --git a/" THEN {"diff --git a/"}
  ELSE IF prefix = "+++ b/" THEN {"+++ b/"}
  ELSE IF prefix = "@@" THEN {"@@ "}
  ELSE IF prefix = "+" THEN {"+", "+++ b/", "+++ /dev/null"}
  ELSE IF prefix = "-" THEN {"-", "--- a/", "--- /dev/null"}
  ELSE IF prefix = " " THEN {" "}
  ELSE {}
CompletedBy(prefix) ==
  IF prefix = "+++ b/" THEN {<<"+", "++ b/x">>} ELSE {}
\* The pieces that contain the text somewhere.
PiecesIncluding(text) ==
  IF text \in {"diff --git ", "diff --git a/"} THEN {"diff --git a/", "diff --git a/x b/x"}
  ELSE IF text = "new file mode" THEN {"new file mode "}
  ELSE IF text = "deleted file mode" THEN {"deleted file mode "}
  ELSE IF text = "--- /dev/null" THEN {"--- /dev/null"}
  ELSE IF text = "+++ /dev/null" THEN {"+++ /dev/null"}
  ELSE IF text = "@@" THEN {"@@ ", " @@"}
  ELSE {}

\* line.startsWith(prefix), line.includes(text)
StartsWith(l, prefix) ==
  /\ l.pieces # <<>>
  /\ \/ l.pieces[1] \in PiecesStarting(prefix)
     \/ Len(l.pieces) >= 2 /\ <<l.pieces[1], l.pieces[2]>> \in CompletedBy(prefix)
Includes(l, text) == \E i \in 1..Len(l.pieces) : l.pieces[i] \in PiecesIncluding(text)
\* The printed form of a hunk range whose count is left out ("-7" for "-7,1").
Omitted == -1

\* The new lines an edit script produces from the old lines (edits ascending).
RECURSIVE Patch(_, _)
Patch(oldLines, edits) ==
  IF edits = <<>> THEN oldLines
  ELSE LET e == edits[Len(edits)]
           patched == SubSeq(oldLines, 1, e.at - 1) \o e.ins
                        \o SubSeq(oldLines, e.at + e.del, Len(oldLines))
       IN Patch(patched, SubSeq(edits, 1, Len(edits) - 1))

\* Lines added minus lines removed by the first k edits.
RECURSIVE Shift(_, _)
Shift(edits, k) ==
  IF k = 0 THEN 0
  ELSE Shift(edits, k - 1) + Len(edits[k].ins) - edits[k].del

Tagged(tag, ls) == [i \in 1..Len(ls) |-> TextLine(<<tag, ls[i]>>)]

Count(n) == IF n = 1 THEN Omitted ELSE n

\* The k-th hunk of `git diff` for an edit script whose edits lie more than
\* 2 * Ctx lines apart: "@@ -oldStart,oldLines +newStart,newLines @@" and its lines.
UnifiedHunk(oldLines, edits, k) ==
  LET e == edits[k]
      n == Len(oldLines)
      first == Max(1, e.at - Ctx)
      before == SubSeq(oldLines, first, e.at - 1)
      removed == SubSeq(oldLines, e.at, e.at + e.del - 1)
      after == SubSeq(oldLines, e.at + e.del, Min(n, e.at + e.del - 1 + Ctx))
      oldCount == Len(before) + e.del + Len(after)
      newCount == Len(before) + Len(e.ins) + Len(after)
      newFirst == first + Shift(edits, k - 1)
  IN <<[pieces |-> <<"@@ ", "-a,b +c,d", " @@">>,
        range |-> [given |-> TRUE,
                   oldStart |-> IF oldCount = 0 THEN first - 1 ELSE first,
                   oldCount |-> Count(oldCount),
                   newStart |-> IF newCount = 0 THEN newFirst - 1 ELSE newFirst,
                   newCount |-> Count(newCount)]]>>
     \o Tagged(" ", before) \o Tagged("-", removed)
     \o Tagged("+", e.ins) \o Tagged(" ", after)

RECURSIVE UnifiedHunks(_, _, _)
UnifiedHunks(oldLines, edits, k) ==
  IF k > Len(edits) THEN <<>>
  ELSE UnifiedHunk(oldLines, edits, k) \o UnifiedHunks(oldLines, edits, k + 1)

\* One file's section of the diff.  ch: [file, old, edits, isNew, isDeleted].
DiffSection(ch) ==
  <<TextLine(<<"diff --git a/", ch.file, " b/", ch.file>>)>>
  \o (IF ch.isNew THEN <<TextLine(<<"new file mode ", "100644">>)>>
      ELSE IF ch.isDeleted THEN <<TextLine(<<"deleted file mode ", "100644">>)>>
      ELSE <<>>)
  \o <<TextLine(<<"index ", "0000000..1111111">>),
       IF ch.isNew THEN TextLine(<<"--- /dev/null">>) ELSE TextLine(<<"--- a/", ch.file>>),
       IF ch.isDeleted THEN TextLine(<<"+++ /dev/null">>) ELSE TextLine(<<"+++ b/", ch.file>>)>>
  \o UnifiedHunks(ch.old, ch.edits, 1)

RECURSIVE DiffText(_)
DiffText(changes) ==
  IF changes = <<>> THEN <<>>
  ELSE DiffSection(Head(changes)) \o DiffText(Tail(changes))

\* getFullDiff: the unstaged diff, then "\n" and the staged diff when both exist.
getFullDiff(unstaged, staged) ==
  LET u == DiffText(unstaged)
      s == DiffText(staged)
  IN IF u # <<>> /\ s # <<>> THEN u \o <<BlankLine>> \o s
     ELSE u \o s

(***************************************************************************)
(* hunk-parser.ts: parseDiffIntoHunks.                                     *)
(* The prefix tests of the parser are made on the text of the line.        *)
(***************************************************************************)
\* The file header recognised anywhere in a line, not only at its start.
IsFileHeader_Anywhere(l) == Includes(l, "diff --git ")

\* line.startsWith("diff --git ")
IsFileHeader(l) == StartsWith(l, "diff --git ")
\* line.startsWith("+++ b/")
IsFilePath(l) == StartsWith(l, "+++ b/")
\* line.startsWith("@@")
IsHunkHeader(l) == StartsWith(l, "@@")
\* The first character of the line, for startsWith("+"), ("-") and (" ").
FirstChar(l) ==
  IF StartsWith(l, "+") THEN "+"
  ELSE IF StartsWith(l, "-") THEN "-"
  ELSE IF StartsWith(l, " ") THEN " "
  ELSE "other"
\* line.substring(1) of a line pushed to hunkLines (of a "--- a/<path>" line
\* only the text up to the path is kept).
Rest(pieces) ==
  IF Len(pieces) = 2 /\ pieces[1] \in {"+", "-", " "} THEN pieces[2]
  ELSE IF pieces = <<"+++ /dev/null">> THEN "++ /dev/null"
  ELSE IF pieces = <<"--- /dev/null">> THEN "-- /dev/null"
  ELSE "-- a/"
\* The line as it is pushed to hunkLines.
HunkLine(l) == [tag |-> FirstChar(l), text |-> Rest(l.pieces)]
\* line.substring(6) of a "+++ b/" line.
PathOf(l) == IF l.pieces[1] = "+++ b/" THEN l.pieces[2] ELSE "+b/x"

\* oldLines = match[2] ? parseInt(match[2]) : 1; newLines = parseInt(match[4]) || 1
parseHunkHeader(l, file) ==
  IF ~l.range.given
  THEN [file |-> file, oldStart |-> 0, oldLines |-> 0, newStart |-> 0, newLines |-> 0,
        lines |-> <<>>]
  ELSE [file |-> file,
        oldStart |-> l.range.oldStart,
        oldLines |-> IF l.range.oldCount = Omitted THEN 1 ELSE l.range.oldCount,
        newStart |-> l.range.newStart,
        newLines |-> IF l.range.newCount = Omitted \/ l.range.newCount = 0
                     THEN 1 ELSE l.range.newCount,
        lines |-> <<>>]

\* A DiffHunk that stands for "no hunk" where a record is needed.
NullHunk ==
  [file |-> "", oldStart |-> 0, oldLines |-> 0, newStart |-> 0, newLines |-> 0,
   lines |-> <<>>]

\* fileHunksMap.get(file) || [], push, set: a Map keeps its insertion order.
MapPush(map, file, hunk) ==
  IF \E i \in 1..Len(map) : map[i].file = file
  THEN [i \in 1..Len(map) |->
          IF map[i].file = file
          THEN [map[i] EXCEPT !.hunks = Append(@, hunk)]
          ELSE map[i]]
  ELSE Append(map, [file |-> file, hunks |-> <<hunk>>])

\* if (currentHunk && currentFile) { currentHunk.lines = hunkLines; ... }
SaveHunk(st) ==
  IF st.hasHunk /\ st.currentFile # NullPath
  THEN MapPush(st.map, st.currentFile, [st.currentHunk EXCEPT !.lines = st.hunkLines])
  ELSE st.map

\* One iteration of the loop over the lines (lines 33-81).
ParseLine(st, l) ==
  IF IsFileHeader(l)
  THEN [st EXCEPT !.map = SaveHunk(st), !.hasHunk = FALSE,
                  !.currentHunk = NullHunk, !.hunkLines = <<>>]
  ELSE IF IsFilePath(l)
  THEN [st EXCEPT !.currentFile = PathOf(l)]
  ELSE IF IsHunkHeader(l)
  THEN [st EXCEPT !.map = SaveHunk(st), !.hasHunk = TRUE,
                  !.currentHunk =
                     parseHunkHeader(l, IF st.currentFile = NullPath THEN "" ELSE st.currentFile),
                  !.hunkLines = <<>>]
  ELSE IF st.hasHunk /\ FirstChar(l) \in {"+", "-", " "}
  THEN [st EXCEPT !.hunkLines = Append(@, HunkLine(l))]
  ELSE st

RECURSIVE ParseLines(_, _)
ParseLines(st, lines) ==
  IF lines = <<>> THEN st ELSE ParseLines(ParseLine(st, Head(lines)), Tail(lines))

\* The FileHunks[] of a diff: <<[file, hunks]>> in first-appearance order.
parseDiffIntoHunks(diffOutput) ==
  SaveHunk(ParseLines([currentFile |-> NullPath, hasHunk |-> FALSE,
                       currentHunk |-> NullHunk, hunkLines |-> <<>>, map |-> <<>>],
                      diffOutput))

(***************************************************************************)
(* hunk-parser.ts, the later version (src/unnamed/part_002): parseDiff.    *)
(***************************************************************************)
\* isValidFilePath: empty, over-long or garbage paths are refused.
isValidFilePath(path) == path \notin {"", "${x}", "a<b"}

\* ('\n' + diffOutput).split(/\n(?=diff --git a\/)/): a part begins at every
\* line that starts with "diff --git a/"; what precedes the first is a part too.
RECURSIVE FileParts(_, _)
FileParts(parts, lines) ==
  IF lines = <<>> THEN parts
  ELSE LET l == Head(lines)
       IN IF StartsWith(l, "diff --git a/") \/ parts = <<>>
          THEN FileParts(Append(parts, <<l>>), Tail(lines))
          ELSE FileParts([parts EXCEPT ![Len(parts)] = Append(@, l)], Tail(lines))

\* part.match(/^diff --git a\/(.+) b\/(.+)$/m): the lines of the part that match.
HeaderLines(part) ==
  SelectSeq(part, LAMBDA l : /\ StartsWith(l, "diff --git a/")
                             /\ \E i \in 2..(Len(l.pieces) - 1) : l.pieces[i] = " b/")
\* fileMatch[2]: the text after the last " b/".
DestinationOf(l) == l.pieces[Len(l.pieces)]

\* The lines before the first "@@" of the part (all of them if there is none).
RECURSIVE HeaderOf(_)
HeaderOf(part) ==
  IF part = <<>> \/ Includes(Head(part), "@@") THEN <<>>
  ELSE <<Head(part)>> \o HeaderOf(Tail(part))
HeaderIncludes(part, text) ==
  \E i \in 1..Len(HeaderOf(part)) : Includes(HeaderOf(part)[i], text)

\* The matches of the hunk regex, each with the text up to the next match.
RECURSIVE HunkContents(_, _)
HunkContents(acc, lines) ==
  IF lines = <<>> THEN acc
  ELSE LET l == Head(lines)
       IN IF l.range.given
          THEN HunkContents(Append(acc, <<l>>), Tail(lines))
          ELSE IF acc = <<>> THEN HunkContents(acc, Tail(lines))
          ELSE HunkContents([acc EXCEPT ![Len(acc)] = Append(@, l)], Tail(lines))

\* String.prototype.trim() on a hunk's text: blank lines at its end, and lines
\* of one space, go.
RECURSIVE TrimEnd(_)
TrimEnd(lines) ==
  IF lines # <<>> /\ lines[Len(lines)].pieces \in {<<>>, <<" ", "">>}
  THEN TrimEnd(SubSeq(lines, 1, Len(lines) - 1))
  ELSE lines

\* One part of the diff: no entry, or one FileDiff (summary and fullDiff left out).
FileDiffOf(part) ==
  IF part = <<>> \/ HeaderLines(part) = <<>> THEN <<>>
  ELSE LET file == DestinationOf(HeaderLines(part)[1])
           isBinary == HeaderIncludes(part, "Binary file")
                         \/ HeaderIncludes(part, "GIT binary patch")
           contents == IF isBinary THEN <<>> ELSE HunkContents(<<>>, part)
           hunks == [i \in 1..Len(contents) |->
                       [file |-> file, index |-> i - 1,
                        header |-> contents[i][1].range, content |-> TrimEnd(contents[i])]]
       IN IF ~isValidFilePath(file) THEN <<>>
          ELSE <<[file |-> file,
                  isNew |-> HeaderIncludes(part, "new file mode")
                              \/ HeaderIncludes(part, "--- /dev/null"),
                  isDeleted |-> HeaderIncludes(part, "deleted file mode")
                                  \/ HeaderIncludes(part, "+++ /dev/null"),
                  isBinary |-> isBinary,
                  hunks |-> IF hunks # <<>> THEN hunks
                            ELSE <<[file |-> file, index |-> 0, header |-> NoRange,
                                    content |-> part]>>]>>

parseDiff(diffOutput) ==
  LET parts == FileParts(<<>>, diffOutput)
  IN Flatten([i \in 1..Len(parts) |-> FileDiffOf(parts[i])])

(***************************************************************************)
(* The repositories of the model.  Files, in path order.                   *)
(***************************************************************************)
Files == {"auth", "gone", "logger", "newf"}

AuthOld == <<"a1", "a2", "a3", "a4", "a5", "a6", "a7", "a8", "a9", "a10">>
GoneOld == <<"g1", "g2">>
LoggerOld == <<"l1", "l2">>

\* auth: a line inserted after line 1, and line 10 rewritten (two hunks).
AuthChange ==
  [file |-> "auth", old |-> AuthOld, isNew |-> FALSE, isDeleted |-> FALSE,
   edits |-> <<[at |-> 2, del |-> 0, ins |-> <<"X">>],
               [at |-> 10, del |-> 1, ins |-> <<"Y">>]>>]
\* logger: line 2 rewritten.
LoggerChange ==
  [file |-> "logger", old |-> LoggerOld, isNew |-> FALSE, isDeleted |-> FALSE,
   edits |-> <<[at |-> 2, del |-> 1, ins |-> <<"L">>]>>]
\* gone: the file removed from the working tree.
GoneChange ==
  [file |-> "gone", old |-> GoneOld, isNew |-> FALSE, isDeleted |-> TRUE,
   edits |-> <<[at |-> 1, del |-> 2, ins |-> <<>>]>>]
\* newf: a new file, added to the index (git diff does not list untracked files).
NewfChange ==
  [file |-> "newf", old |-> <<>>, isNew |-> TRUE, isDeleted |-> FALSE,
   edits |-> <<[at |-> 1, del |-> 0, ins |-> <<"n1", "n2">>]>>]

\* "clean": two modified tracked files, nothing staged.
\* "edge": a modified file, a deleted file and a staged new file.
Worlds == {"clean", "edge"}

\* Lines of each file at HEAD; newf is in no commit.
HeadLines(f) ==
  IF f = "auth" THEN AuthOld ELSE IF f = "gone" THEN GoneOld
  ELSE IF f = "logger" THEN LoggerOld ELSE <<>>

Unstaged(w) == IF w = "clean" THEN <<AuthChange, LoggerChange>> ELSE <<AuthChange, GoneChange>>
Staged(w) == IF w = "clean" THEN <<>> ELSE <<NewfChange>>

ChangeOf(changes, f) == SelectSeq(changes, LAMBDA c : c.file = f)

\* The content a change leaves: absent for a deleted file.
ChangeResult(c) == IF c.isDeleted THEN NoFile ELSE TextFile(Patch(c.old, c.edits))

StartHead(w) == [f \in Files |-> IF f = "newf" THEN NoFile ELSE TextFile(HeadLines(f))]
StartIndex(w) ==
  [f \in Files |->
     IF ChangeOf(Staged(w), f) # <<>> THEN ChangeResult(ChangeOf(Staged(w), f)[1])
     ELSE StartHead(w)[f]]
StartWt(w) ==
  [f \in Files |->
     IF ChangeOf(Unstaged(w), f) # <<>> THEN ChangeResult(ChangeOf(Unstaged(w), f)[1])
     ELSE StartIndex(w)[f]]

\* The Registry of a run: the parser's output for the repository's full diff.
Registry(w) == parseDiffIntoHunks(getFullDiff(Unstaged(w), Staged(w)))

(***************************************************************************)
(* git.ts and the file system.  A repository state is a record             *)
(*   [head, index, wt, log]                                                *)
(* head, index, wt: path -> content or NoFile; log: the commits created.   *)
(* What the git commands do is git's behaviour at the wrapper's call.      *)
(***************************************************************************)
\* git show HEAD:<path>, "" when the path is not in HEAD.
\* GitUserInfo: { name, email }; NullUser stands for null.
GitUserInfo(name, email) == [name |-> name, email |-> email]
NullUser == GitUserInfo("", "")
\* user.name and user.email of the repository before the run.
StartConfig == GitUserInfo("me", "me@host")
\* The identities a caller may pass as selectedUser.
SelectedUsers == {NullUser, StartConfig, GitUserInfo("bot", "bot@host")}

\* The repository a run starts in.
StartRepo(w) ==
  [head |-> StartHead(w), index |-> StartIndex(w), wt |-> StartWt(w),
   log |-> <<>>, config |-> StartConfig]

\* git.getGitUserInfo(): user.name and user.email as git config resolves them.
getGitUserInfo(R) == R.config
\* git.setGitUser(name, email, "local"): two `git config` writes.
setGitUser(R, name, email) == [R EXCEPT !.config = GitUserInfo(name, email)]

getOriginalFileContent(R, f) == IF R.head[f] = NoFile THEN EmptyContent ELSE R.head[f]
\* fs.readFileSync, "" when the file does not exist.
getWorkingFileContent(R, f) == IF R.wt[f] = NoFile THEN EmptyContent ELSE R.wt[f]

\* git checkout HEAD -- <files> stops with "pathspec did not match" and checks
\* nothing out when one of the paths is not in HEAD.
ResetThrows(R, files) == \E f \in files : R.head[f] = NoFile
resetFilesToHead(R, files) ==
  [R EXCEPT !.index = [f \in Files |-> IF f \in files THEN R.head[f] ELSE @[f]],
            !.wt = [f \in Files |-> IF f \in files THEN R.head[f] ELSE @[f]]]

\* git add <files> stops when a path is neither on disk nor in the index;
\* otherwise the index takes the working tree's version of each path.
StageThrows(R, files) == \E f \in files : R.wt[f] = NoFile /\ R.index[f] = NoFile
stageFiles(R, files) ==
  [R EXCEPT !.index = [f \in Files |-> IF f \in files THEN R.wt[f] ELSE @[f]]]

\* git reset HEAD: the index becomes HEAD's tree; the working tree is kept.
unstageAll(R) == [R EXCEPT !.index = R.head]

\* The paths a commit made now would record.
StagedPaths(R) == {f \in Files : R.index[f] # R.head[f]}

\* git commit: HEAD takes the index.  entry: what the model notes of the commit.
createCommit(R, entry) ==
  [R EXCEPT !.head = R.index,
            !.log = Append(@, [entry EXCEPT !.paths = StagedPaths(R), !.tree = R.index])]

(***************************************************************************)
(* hunk-applier.ts: saveFileStates, applyHunksToWorkingDirectory,          *)
(* restoreToWorkingState.                                                  *)
(***************************************************************************)
saveFileStates(R, files) ==
  [i \in 1..Len(files) |->
     [file |-> files[i],
      originalContent |-> getOriginalFileContent(R, files[i]),
      workingContent |-> getWorkingFileContent(R, files[i])]]

\* hunks: the DiffHunk objects.  Each file is rewritten from HEAD's content.
applyHunksToWorkingDirectory(R, hunks) ==
  LET touched == {hunks[i].file : i \in 1..Len(hunks)}
      hunksFor(f) == SelectSeq(hunks, LAMBDA h : h.file = f)
  IN [R EXCEPT !.wt =
        [f \in Files |->
           IF f \in touched
           THEN applyHunksToFile(getOriginalFileContent(R, f), hunksFor(f))
           ELSE @[f]]]

\* A variant that leaves the working tree as the replay left it.
restoreToWorkingState_Skipped(R, states) == R

restoreToWorkingState(R, states) ==
  [R EXCEPT !.wt =
     [f \in Files |->
        IF \E i \in 1..Len(states) : states[i].file = f
        THEN (CHOOSE st \in SeqToSet(states) : st.file = f).workingContent
        ELSE @[f]]]

(***************************************************************************)
(* The classifier's answer: groups of hunk references.                      *)
(***************************************************************************)
HunkIdentifier(f, i) == [file |-> f, hunkIndex |-> i]

\* The references a classifier may return: hunks of the Registry, an index past
\* a file's hunks, and files the diff did not list.
RefUniverse ==
  {HunkIdentifier("auth", 0), HunkIdentifier("auth", 1), HunkIdentifier("auth", 2),
   HunkIdentifier("logger", 0), HunkIdentifier("gone", 0), HunkIdentifier("newf", 0)}

RECURSIVE SortedSeq(_)
SortedSeq(S) ==
  IF S = {} THEN <<>>
  ELSE LET m == CHOOSE x \in S : \A y \in S : x <= y
       IN <<m>> \o SortedSeq(S \ {m})

\* refs cut into groups after the positions in cuts; the groups are numbered in
\* list order, or in reverse list order when reversed.
MakeGroups(refs, cuts, reversed) ==
  LET ends == SortedSeq(cuts \cup {Len(refs)})
      n == Len(ends)
  IN [k \in 1..n |->
        [number |-> IF reversed THEN n + 1 - k ELSE k,
         hunks |-> SubSeq(refs, IF k = 1 THEN 1 ELSE ends[k - 1] + 1, ends[k])]]

(***************************************************************************)
(* hunk-commit-processor.ts: processHunkCommitGroup.                       *)
(***************************************************************************)
\* allFileHunks.find((fh) => fh.file === hunkId.file), then fileHunks.hunks[hunkIndex]
FileHunksOf(allFileHunks, file) == SelectSeq(allFileHunks, LAMBDA fh : fh.file = file)
Resolves(allFileHunks, hunkId) ==
  /\ FileHunksOf(allFileHunks, hunkId.file) # <<>>
  /\ hunkId.hunkIndex >= 0
  /\ hunkId.hunkIndex < Len(FileHunksOf(allFileHunks, hunkId.file)[1].hunks)
HunkOf(allFileHunks, hunkId) ==
  FileHunksOf(allFileHunks, hunkId.file)[1].hunks[hunkId.hunkIndex + 1]

\* A group that holds a reference that does not resolve loses all its hunks.
collectHunks_AllOrNothing(group, allFileHunks) ==
  IF \A i \in 1..Len(group.hunks) : Resolves(allFileHunks, group.hunks[i])
  THEN group.hunks ELSE <<>>

\* The loop over group.hunks (lines 32-54): the references that resolve, in
\* order; the others are warned about and skipped.
collectHunks(group, allFileHunks) ==
  SelectSeq(group.hunks, LAMBDA id : Resolves(allFileHunks, id))

\* External failures a group's steps can meet.
GroupFaults == {"reset", "apply", "stage", "config", "commit", "unstage"}

\* One group: collect, reset, apply, stage, commit.  fault: the step that fails
\* for an external reason ("none": no such failure); emptyThrows: whether a
\* commit with nothing staged is reported as an error by the git binding.
\* ops: the repository operations issued for the group, in order; committed:
\* whether a commit was created; the commit notes the references it applied.
processHunkCommitGroup(R, group, allFileHunks, selectedUser, fault, emptyThrows) ==
  LET valid == collectHunks(group, allFileHunks)
      hunksToApply == [i \in 1..Len(valid) |-> HunkOf(allFileHunks, valid[i])]
      affectedFiles == Dedupe([i \in 1..Len(valid) |-> hunksToApply[i].file])
      affected == SeqToSet(affectedFiles)
      resetFailed == fault = "reset" \/ ResetThrows(R, affected)
      caught == IF resetFailed THEN {"reset"} ELSE {}
      R1 == IF resetFailed THEN R ELSE resetFilesToHead(R, affected)
      R2 == applyHunksToWorkingDirectory(R1, hunksToApply)
      R3 == stageFiles(R2, affected)
      needsChange == getGitUserInfo(R3) # selectedUser
      R4 == IF selectedUser # NullUser /\ needsChange /\ fault # "config"
            THEN setGitUser(R3, selectedUser.name, selectedUser.email)
            ELSE R3
      entry == [number |-> group.number, applied |-> valid,
                files |-> affected, parent |-> R4.head, paths |-> {}, tree |-> R4.index,
                author |-> IF selectedUser # NullUser THEN selectedUser ELSE R4.config]
      fail(Rx, ops) == [R |-> Rx, success |-> FALSE, filesProcessed |-> affectedFiles,
                        committed |-> FALSE, ops |-> ops,
                        failed |-> caught \cup {ops[Len(ops)]}]
  IN IF hunksToApply = <<>>
     THEN [R |-> R, success |-> FALSE, filesProcessed |-> <<>>,
           committed |-> FALSE, ops |-> <<>>, failed |-> {}]
     ELSE IF fault = "apply" THEN fail(R1, <<"checkout", "write">>)
     ELSE IF fault = "stage" \/ StageThrows(R2, affected)
          THEN fail(R2, <<"checkout", "write", "add">>)
     ELSE IF fault = "commit" \/ (StagedPaths(R4) = {} /\ emptyThrows)
          THEN fail(R4, <<"checkout", "write", "add", "commit">>)
     ELSE IF StagedPaths(R4) = {}
          THEN [R |-> R4, success |-> TRUE, filesProcessed |-> affectedFiles,
                committed |-> FALSE, ops |-> <<"checkout", "write", "add", "commit">>,
                failed |-> caught]
     ELSE [R |-> createCommit(R4, entry), success |-> TRUE,
           filesProcessed |-> affectedFiles, committed |-> TRUE,
           ops |-> <<"checkout", "write", "add", "commit">>, failed |-> caught]

\* The results the group can have under the fault: a commit with nothing
\* staged either resolves without creating a commit or is reported as an error.
GroupOutcomes(R, group, allFileHunks, selectedUser, fault) ==
  LET quiet == processHunkCommitGroup(R, group, allFileHunks, selectedUser, fault, FALSE)
  IN IF quiet.success /\ ~quiet.committed
     THEN {quiet, processHunkCommitGroup(R, group, allFileHunks, selectedUser, fault, TRUE)}
     ELSE {quiet}

(***************************************************************************)
(* hunk-commit-processor.ts: processAllHunkCommitGroups, one run.          *)
(***************************************************************************)
VARIABLES
  world,          \* which repository the run starts in
  groups,         \* the classifier's groups (argument)
  allFileHunks,   \* the Registry (argument)
  repo,           \* [head, index, wt, log]
  fileStates,     \* the snapshot taken by saveFileStates
  commitResults,  \* the CommitResult[] being built
  committedHunks, \* the Set of "file:index" keys of successful groups
  pc,             \* "prepare", "loop", "restore", "writeback", "returned", "rethrown"
  gi,             \* position of the for loop in groups (1-based)
  faults,         \* external failures injected so far
  thrown,         \* an exception left the loop body and is pending
  restoreSteps,   \* the restoration steps attempted in the finally block, in order
  reApplied,      \* keys of the hunks the finally block replayed
  selectedUser    \* the identity to commit as (argument), or NullUser

\* One file taken through getFullDiff, parseDiffIntoHunks and applyHunksToFile.
VARIABLES
  change,         \* the file's change in the repository: [file, old, edits, isNew, isDeleted]
  diffOutput,     \* what getFullDiff returned
  fileHunks,      \* what parseDiffIntoHunks returned
  applied,        \* what applyHunksToFile returned
  staged,         \* the changes of the file already in the index (<<>>: none)
  fileDiffs,      \* what parseDiff returned
  step            \* "idle", "changed", "diffed", "parsed", "applied"

runVars == <<world, groups, allFileHunks, repo, fileStates, commitResults,
             committedHunks, pc, gi, faults, thrown, restoreSteps, reApplied,
             selectedUser>>
pipeVars == <<change, diffOutput, fileHunks, applied, staged, fileDiffs, step>>

\* One invocation of the commit command (commit.ts runCommit).
VARIABLES
  cli,            \* the command's locals and the repository it runs in
  gitOps,         \* the git operations issued so far, in order
  confirm         \* the answer to the approval prompt: "unasked", "yes", "no"

cmdVars == <<cli, gitOps, confirm>>

\* The web UI server (part_007 runUI) serving POST /api/commit.
VARIABLES
  requests,       \* per request: its groups, its position in the handler
  uiRepo          \* the repository the server works in: changed, staged, commits

uiVars == <<requests, uiRepo>>

\* One call of applyHunksToFile with a list of hunks of one file.
VARIABLES
  original,       \* the change of the file; its old lines are originalContent
  hunkList,       \* the hunks argument, in the order given
  modified,       \* the content returned
  called          \* "idle", "changed", "parsed", "applied"

ordVars == <<original, hunkList, modified, called>>

\* The commit file written for editing and read back (utils/commit-file.ts).
VARIABLES
  originalGroups, \* the groups written to the file
  fileLines,      \* the lines of the file
  edit,           \* what the user did in the editor
  editedCommits,  \* what parseCommitFile returned
  updatedGroups,  \* what mergeEditedCommits returned
  fileStep        \* "idle", "planned", "written", "edited", "parsed", "merged"

fileVars == <<originalGroups, fileLines, edit, editedCommits, updatedGroups, fileStep>>

\* The conversion of the classifier's hunk groups to file groups (commit.ts).
VARIABLES
  aiGroups,        \* result.groups, the classifier's answer
  fileBasedGroups, \* the groups of files shown as the plan
  toCommit,        \* processCommits: filesToCommit of each group
  convStep         \* "idle", "analyzed", "converted", "processed", "returned"

convVars == <<aiGroups, fileBasedGroups, toCommit, convStep>>

\* The web UI server's change notifications (part_007 10-56).
VARIABLES
  sseClients,         \* the connected event-stream clients
  watchDebounceTimer, \* the handle of the last timeout set; 0: null
  timeouts,           \* the runtime's pending timeouts: [id, due], due in ticks
  fileWatcher,        \* "none", "open", "unavailable", "closed"
  wire                \* what was called and sent so far (observation only)

bounceVars == <<sseClients, watchDebounceTimer, timeouts, fileWatcher, wire>>

\* The stored configuration and calls of removeGitUser (config.ts).
VARIABLES
  stored,             \* the configuration file: [exists, gitUsers, defaultGitUser]
  lastRemove          \* the last call: its identifier, the file before, its result

userVars == <<stored, lastRemove>>
lateVars == <<fileVars, convVars, bounceVars, userVars>>
auxVars == <<cmdVars, uiVars, ordVars, lateVars>>
vars == <<runVars, pipeVars, auxVars>>

\* No command is running.
CmdIdle ==
  /\ cli = [pc |-> "idle"]
  /\ gitOps = <<>>
  /\ confirm = "unasked"

\* No request has been sent to the server.
UiIdle ==
  /\ requests = <<>>
  /\ uiRepo = <<>>

\* applyHunksToFile is not being called.
OrdIdle ==
  /\ original = NullHunk
  /\ hunkList = <<>>
  /\ modified = <<>>
  /\ called = "idle"

\* No commit file is being written or read.
FileIdle ==
  /\ originalGroups = <<>>
  /\ fileLines = <<>>
  /\ edit = <<>>
  /\ editedCommits = <<>>
  /\ updatedGroups = <<>>
  /\ fileStep = "idle"

\* No plan is being converted.
ConvIdle ==
  /\ aiGroups = <<>>
  /\ fileBasedGroups = <<>>
  /\ toCommit = <<>>
  /\ convStep = "idle"

\* The server is not running.
BounceIdle ==
  /\ sseClients = {}
  /\ watchDebounceTimer = 0
  /\ timeouts = {}
  /\ fileWatcher = "none"
  /\ wire = <<>>

\* No configuration is being edited.
UserIdle ==
  /\ stored = <<>>
  /\ lastRemove = <<>>

LateIdle == FileIdle /\ ConvIdle /\ BounceIdle /\ UserIdle

AuxIdle == CmdIdle /\ UiIdle /\ OrdIdle /\ LateIdle

\* No file is being taken through the pipeline.
PipeIdle ==
  /\ change = NullHunk
  /\ diffOutput = <<>>
  /\ fileHunks = <<>>
  /\ applied = <<>>
  /\ staged = <<>>
  /\ fileDiffs = <<>>
  /\ step = "idle"

\* groups.flatMap((g) => g.hunks.map((h) => h.file)), deduplicated
allFiles ==
  Dedupe(Flatten([k \in 1..Len(groups) |->
                    [i \in 1..Len(groups[k].hunks) |-> groups[k].hunks[i].file]]))

\* Every (file, index) of the Registry, as the key the code builds for it.
RegistryKeys(reg) ==
  UNION {{HunkIdentifier(reg[i].file, j - 1) : j \in 1..Len(reg[i].hunks)}
           : i \in 1..Len(reg)}

Init ==
  /\ world \in Worlds
  /\ \E n \in 1..MaxRefs : \E refs \in [1..n -> RefUniverse] :
       \E cuts \in SUBSET (1..(n - 1)) : \E reversed \in BOOLEAN :
         groups = MakeGroups(refs, cuts, reversed)
  /\ allFileHunks = Registry(world)
  /\ repo = StartRepo(world)
  /\ selectedUser \in SelectedUsers
  /\ fileStates = <<>>
  /\ commitResults = <<>>
  /\ committedHunks = {}
  /\ pc = "prepare"
  /\ gi = 1
  /\ faults = 0
  /\ thrown = FALSE
  /\ restoreSteps = <<>>
  /\ reApplied = {}
  /\ PipeIdle
  /\ AuxIdle

MayFail(kinds) == {"none"} \cup (IF faults < MaxFaults THEN kinds ELSE {})
Charge(fault) == IF fault = "none" THEN faults ELSE faults + 1

\* A variant that takes the snapshot after the files were checked out from HEAD.
Prepare_AfterCheckout ==
  /\ pc = "prepare"
  /\ LET inHead == {f \in SeqToSet(allFiles) : repo.head[f] # NoFile}
     IN /\ repo' = resetFilesToHead(repo, inHead)
        /\ fileStates' = saveFileStates(repo', allFiles)
  /\ pc' = "loop"
  /\ UNCHANGED <<world, groups, allFileHunks, commitResults, committedHunks,
                 gi, faults, thrown, restoreSteps, reApplied>>
  /\ UNCHANGED <<pipeVars, selectedUser, auxVars>>

\* const fileStates = await hunkApplier.saveFileStates(allFiles)
Prepare ==
  /\ pc = "prepare"
  /\ fileStates' = saveFileStates(repo, allFiles)
  /\ pc' = "loop"
  /\ UNCHANGED <<world, groups, allFileHunks, repo, commitResults, committedHunks,
                 gi, faults, thrown, restoreSteps, reApplied>>
  /\ UNCHANGED <<pipeVars, selectedUser, auxVars>>

\* One iteration of the for loop: the group, its result, the committed keys,
\* and git.unstageAll() (which swallows its own failure).
ProcessGroup ==
  /\ pc = "loop"
  /\ gi <= Len(groups)
  /\ \E fault \in MayFail(GroupFaults) :
       \E result \in GroupOutcomes(repo, groups[gi], allFileHunks, selectedUser, fault) :
       LET group == groups[gi]
       IN /\ commitResults' =
               Append(commitResults,
                      [number |-> group.number, files |-> result.filesProcessed,
                       success |-> result.success, committed |-> result.committed,
                       ops |-> result.ops, fault |-> fault,
                       failed |-> result.failed])
          /\ committedHunks' =
               IF result.success
               THEN committedHunks \cup SeqToSet(group.hunks)
               ELSE committedHunks
          /\ repo' = IF fault = "unstage" THEN result.R ELSE unstageAll(result.R)
          /\ faults' = Charge(fault)
  /\ gi' = gi + 1
  /\ pc' = IF gi = Len(groups) THEN "restore" ELSE "loop"
  /\ UNCHANGED <<world, groups, allFileHunks, fileStates, thrown, restoreSteps, reApplied>>
  /\ UNCHANGED <<pipeVars, selectedUser, auxVars>>

\* A statement of the loop body outside the inner try blocks throws: the for
\* loop is left and the finally block runs with the exception pending.
GroupThrows ==
  /\ pc = "loop"
  /\ gi <= Len(groups)
  /\ faults < MaxFaults
  /\ faults' = faults + 1
  /\ thrown' = TRUE
  /\ pc' = "restore"
  /\ UNCHANGED <<world, groups, allFileHunks, repo, fileStates, commitResults,
                 committedHunks, gi, restoreSteps, reApplied>>
  /\ UNCHANGED <<pipeVars, selectedUser, auxVars>>

\* Registry hunks whose key is not in committedHunks, in Registry order.
uncommittedKeys == RegistryKeys(allFileHunks) \ committedHunks
uncommittedHunks ==
  Flatten([i \in 1..Len(allFileHunks) |->
             SelectSeq([j \in 1..Len(allFileHunks[i].hunks) |->
                          [key |-> HunkIdentifier(allFileHunks[i].file, j - 1),
                           hunk |-> allFileHunks[i].hunks[j]]],
                       LAMBDA e : e.key \notin committedHunks)])

\* Both restoration steps in one try block: a failed replay ends the finally block.
RestoreUncommitted_OneTryBlock ==
  /\ pc = "restore"
  /\ \E fault \in MayFail({"restoreReset", "restoreApply"}) :
       LET files == SeqToSet(allFiles)
           hunks == [i \in 1..Len(uncommittedHunks) |-> uncommittedHunks[i].hunk]
           R1 == resetFilesToHead(repo, files)
       IN /\ faults' = Charge(fault)
          /\ IF fault = "restoreReset" \/ ResetThrows(repo, files)
             THEN /\ repo' = repo
                  /\ reApplied' = {}
                  /\ restoreSteps' = Append(restoreSteps, "replay failed")
                  /\ pc' = IF thrown THEN "rethrown" ELSE "returned"
             ELSE IF hunks # <<>> /\ fault = "restoreApply"
             THEN /\ repo' = R1
                  /\ reApplied' = {}
                  /\ restoreSteps' = Append(restoreSteps, "replay failed")
                  /\ pc' = IF thrown THEN "rethrown" ELSE "returned"
             ELSE /\ repo' = IF hunks = <<>> THEN R1
                             ELSE applyHunksToWorkingDirectory(R1, hunks)
                  /\ reApplied' = uncommittedKeys
                  /\ restoreSteps' = Append(restoreSteps, "replay done")
                  /\ pc' = "writeback"
  /\ UNCHANGED <<world, groups, allFileHunks, fileStates, commitResults,
                 committedHunks, gi, thrown>>
  /\ UNCHANGED <<pipeVars, selectedUser, auxVars>>

\* finally, first try block: reset allFiles to HEAD, replay the uncommitted hunks.
RestoreUncommitted ==
  /\ pc = "restore"
  /\ \E fault \in MayFail({"restoreReset", "restoreApply"}) :
       LET files == SeqToSet(allFiles)
           hunks == [i \in 1..Len(uncommittedHunks) |-> uncommittedHunks[i].hunk]
           R1 == resetFilesToHead(repo, files)
       IN /\ faults' = Charge(fault)
          /\ IF fault = "restoreReset" \/ ResetThrows(repo, files)
             THEN /\ repo' = repo
                  /\ reApplied' = {}
                  /\ restoreSteps' = Append(restoreSteps, "replay failed")
             ELSE IF hunks # <<>> /\ fault = "restoreApply"
             THEN /\ repo' = R1
                  /\ reApplied' = {}
                  /\ restoreSteps' = Append(restoreSteps, "replay failed")
             ELSE /\ repo' = IF hunks = <<>> THEN R1
                             ELSE applyHunksToWorkingDirectory(R1, hunks)
                  /\ reApplied' = uncommittedKeys
                  /\ restoreSteps' = Append(restoreSteps, "replay done")
  /\ pc' = "writeback"
  /\ UNCHANGED <<world, groups, allFileHunks, fileStates, commitResults,
                 committedHunks, gi, thrown>>
  /\ UNCHANGED <<pipeVars, selectedUser, auxVars>>

\* finally, second try block: restoreToWorkingState(fileStates); then the
\* function returns commitResults, or the pending exception is rethrown.
RestoreToWorkingState ==
  /\ pc = "writeback"
  /\ \E fault \in MayFail({"writeback"}) :
       /\ faults' = Charge(fault)
       /\ IF fault = "writeback"
          THEN /\ repo' = repo
               /\ restoreSteps' = Append(restoreSteps, "writeback failed")
          ELSE /\ repo' = restoreToWorkingState(repo, fileStates)
               /\ restoreSteps' = Append(restoreSteps, "writeback done")
  /\ pc' = IF thrown THEN "rethrown" ELSE "returned"
  /\ UNCHANGED <<world, groups, allFileHunks, fileStates, commitResults,
                 committedHunks, gi, thrown, reApplied>>
  /\ UNCHANGED <<pipeVars, selectedUser, auxVars>>

Next == Prepare \/ ProcessGroup \/ GroupThrows \/ RestoreUncommitted \/ RestoreToWorkingState

Spec == Init /\ [][Next]_vars

Done == pc \in {"returned", "rethrown"}

(***************************************************************************)
(* The round trip of one file: its diff as git prints it, the hunks the    *)
(* parser makes of it, and the hunks applied to the committed content.     *)
(***************************************************************************)
PoolLines == <<"p1", "p2", "p3", "p4">>
\* Text that repeats the file header of a diff (a file that documents diffs).
DiffSyntax == "diff --git a/x b/x"
Insertions == {<<>>, <<"x">>, <<"x", "y">>, <<DiffSyntax>>}

\* One change at one place of a file of n lines; a file of no line is new.
SingleChanges ==
  {[file |-> "auth", old |-> SubSeq(PoolLines, 1, n), isNew |-> n = 0,
    isDeleted |-> FALSE, edits |-> <<[at |-> at, del |-> del, ins |-> ins]>>] :
     <<n, at, del, ins>> \in
       {t \in (0..MaxLines) \X (1..(MaxLines + 1)) \X (0..MaxLines) \X Insertions :
          /\ t[2] <= t[1] + 1
          /\ t[2] + t[3] <= t[1] + 1
          /\ ~(t[3] = 0 /\ t[4] = <<>>)}}

\* Changes of a file that holds such text already: as context, and removed.
DocOld == <<DiffSyntax, "p2">>
DocChanges ==
  {[file |-> "auth", old |-> DocOld, isNew |-> FALSE, isDeleted |-> FALSE,
    edits |-> <<[at |-> 2, del |-> 1, ins |-> <<"x">>]>>],
   [file |-> "auth", old |-> DocOld, isNew |-> FALSE, isDeleted |-> FALSE,
    edits |-> <<[at |-> 1, del |-> 1, ins |-> <<>>]>>]}

\* What is staged already when the change is made: nothing, or (for the
\* two-hunk change of auth) an earlier change of the same file or of logger.
AuthStaged ==
  [file |-> "auth", old |-> <<"a0">> \o AuthOld, isNew |-> FALSE, isDeleted |-> FALSE,
   edits |-> <<[at |-> 1, del |-> 1, ins |-> <<>>]>>]
StagedBefore(c) ==
  IF c = AuthChange THEN {<<>>, <<AuthStaged>>, <<LoggerChange>>} ELSE {<<>>}

\* The contents the code reads for the change's file.
CommittedContent(c) ==
  IF c.isNew THEN EmptyContent
  ELSE IF ChangeOf(staged, c.file) # <<>> THEN TextFile(ChangeOf(staged, c.file)[1].old)
  ELSE TextFile(c.old)
WorkingContent(c) == TextFile(Patch(c.old, c.edits))

\* processAllHunkCommitGroups is not running.
RunIdle ==
  /\ world = "clean"
  /\ groups = <<>>
  /\ allFileHunks = <<>>
  /\ repo = StartRepo("clean")
  /\ selectedUser = NullUser
  /\ fileStates = <<>>
  /\ commitResults = <<>>
  /\ committedHunks = {}
  /\ pc = "idle"
  /\ gi = 1
  /\ faults = 0
  /\ thrown = FALSE
  /\ restoreSteps = <<>>
  /\ reApplied = {}

PipeInit ==
  /\ change \in SingleChanges \cup DocChanges \cup {AuthChange, LoggerChange, NewfChange}
  /\ staged \in StagedBefore(change)
  /\ diffOutput = <<>>
  /\ fileHunks = <<>>
  /\ fileDiffs = <<>>
  /\ applied = <<>>
  /\ step = "changed"
  /\ RunIdle
  /\ AuxIdle

\* The diff of the change as getFullDiff returns it (a new file is in the
\* diff once it is added to the index).
DiffOf(c, before) ==
  IF c.isNew THEN getFullDiff(<<>>, before \o <<c>>) ELSE getFullDiff(<<c>>, before)

\* git.getFullDiff()
PipeDiff ==
  /\ step = "changed"
  /\ diffOutput' = DiffOf(change, staged)
  /\ step' = "diffed"
  /\ UNCHANGED <<change, staged, fileHunks, fileDiffs, applied, runVars, auxVars>>

\* parseDiffIntoHunks(diffOutput), and parseDiff(diffOutput) of the later version
PipeParse ==
  /\ step = "diffed"
  /\ fileHunks' = parseDiffIntoHunks(diffOutput)
  /\ fileDiffs' = parseDiff(diffOutput)
  /\ step' = "parsed"
  /\ UNCHANGED <<change, staged, diffOutput, applied, runVars, auxVars>>

\* applyHunksToFile(originalContent, every hunk of the file)
PipeApply ==
  /\ step = "parsed"
  /\ applied' = applyHunksToFile(CommittedContent(change),
                                 FileHunksOf(fileHunks, change.file)[1].hunks)
  /\ step' = "applied"
  /\ UNCHANGED <<change, staged, diffOutput, fileHunks, fileDiffs, runVars, auxVars>>

PipeNext == PipeDiff \/ PipeParse \/ PipeApply

SpecRoundTrip == PipeInit /\ [][PipeNext]_vars

\* C2: all hunks of a file applied to its committed content give its working
\* content, for a modified file and for a new file (committed content empty).
C2_RoundTrip ==
  step = "applied" => applied = WorkingContent(change)

(***************************************************************************)
(* Properties of a run of processAllHunkCommitGroups.                      *)
(***************************************************************************)
\* The Registry keys a created commit applied.
CommittedKeys == UNION {SeqToSet(repo.log[i].applied) : i \in 1..Len(repo.log)}

\* How often the commits created so far applied the reference.
Occurrences(seq, x) == Cardinality({i \in 1..Len(seq) : seq[i] = x})
RECURSIVE SumApplied(_, _)
SumApplied(log, key) ==
  IF log = <<>> THEN 0
  ELSE Occurrences(Head(log).applied, key) + SumApplied(Tail(log), key)

\* The references of a group that resolve against the Registry.
ValidRefs(group) == SelectSeq(group.hunks, LAMBDA id : Resolves(allFileHunks, id))

\* The commit created for the group at list position k (it notes the number).
CommitOf(log, k) == SelectSeq(log, LAMBDA c : c.number = groups[k].number)

\* External failures met inside the finally block (the others are noted in
\* commitResults, or left the loop as the pending exception).
RestoreFaults ==
  faults - Cardinality({k \in 1..Len(commitResults) : commitResults[k].fault # "none"})
         - (IF thrown THEN 1 ELSE 0)

\* The text a hunk adds and the text it removes.
Added(hunk) == {hunk.lines[i].text : i \in {j \in 1..Len(hunk.lines) : hunk.lines[j].tag = "+"}}
Removed(hunk) == {hunk.lines[i].text : i \in {j \in 1..Len(hunk.lines) : hunk.lines[j].tag = "-"}}

\* The hunk's change is in the content: what it adds is there, what it removes
\* is not (the changes of the modelled repositories add and remove distinct text).
Present(hunk, content) ==
  /\ content # NoFile
  /\ Added(hunk) \subseteq SeqToSet(content)
  /\ Removed(hunk) \cap SeqToSet(content) = {}

\* The hunk is a pending change: in the working tree and not in HEAD.
Pending(R, hunk) == Present(hunk, R.wt[hunk.file]) /\ ~Present(hunk, R.head[hunk.file])

\* C1: when the run is over (the restoration having met no external failure),
\* every hunk of the Registry is in exactly one of two places: applied in a
\* commit that was created, or pending in the restored working tree.  Stated
\* for the repository with two modified files.
C1_Coverage ==
  (Done /\ RestoreFaults = 0 /\ world = "clean")
    => \A key \in RegistryKeys(allFileHunks) :
         (key \in CommittedKeys) # Pending(repo, HunkOf(allFileHunks, key))

\* C3: h0 and h1 of auth in two groups, h0 first, both committed: the committed
\* content of auth is the baseline with h0 and h1 applied together.
C3_IndependentReplay ==
  LET h0 == HunkIdentifier("auth", 0)
      h1 == HunkIdentifier("auth", 1)
  IN (/\ Done
      /\ Len(groups) = 2
      /\ groups[1].hunks = <<h0>>
      /\ groups[2].hunks = <<h1>>
      /\ Len(repo.log) = 2)
     => repo.head["auth"] =
          applyHunksToFile(StartHead(world)["auth"],
                           <<HunkOf(allFileHunks, h0), HunkOf(allFileHunks, h1)>>)

\* The run of the loop over gs from R in which no step meets an external failure.
RECURSIVE FaultFreeLoop(_, _, _)
FaultFreeLoop(R, gs, reg) ==
  IF gs = <<>> THEN R
  ELSE FaultFreeLoop(unstageAll(processHunkCommitGroup(R, Head(gs), reg, selectedUser,
                                                    "none", FALSE).R),
                     Tail(gs), reg)

\* What a commit changes: per path, the text it adds to and removes from its parent.
LinesOf(content) == IF content = NoFile THEN {} ELSE SeqToSet(content)
ChangeOfCommit(c) ==
  [f \in c.paths |-> <<LinesOf(c.tree[f]) \ LinesOf(c.parent[f]),
                       LinesOf(c.parent[f]) \ LinesOf(c.tree[f])>>]

\* Every reference of the group list, in list order.
AllRefs == Flatten([k \in 1..Len(groups) |-> groups[k].hunks])

\* C4: no reference is repeated and the commit step of one group fails (and
\* nothing else does): every group has a result, every other group has the
\* commit it has in the run without the failure, with the same change, and the
\* hunks of the failed group are in the working tree when the run is over.
C4_FailureIsolation ==
  \A k \in 1..Len(commitResults) :
    (/\ pc = "returned"
     /\ faults = 1
     /\ Cardinality(SeqToSet(AllRefs)) = Len(AllRefs)
     /\ commitResults[k].fault = "commit"
     /\ ValidRefs(groups[k]) # <<>>)
    => LET reference == FaultFreeLoop(StartRepo(world), groups, allFileHunks).log
           failed == ValidRefs(groups[k])
       IN /\ Len(commitResults) = Len(groups)
          /\ \A j \in (1..Len(groups)) \ {k} :
               LET here == CommitOf(repo.log, j)
                   there == CommitOf(reference, j)
               IN /\ Len(here) = Len(there)
                  /\ \A i \in 1..Len(here) :
                       ChangeOfCommit(here[i]) = ChangeOfCommit(there[i])
          /\ \A i \in 1..Len(failed) :
               LET hunk == HunkOf(allFileHunks, failed[i])
               IN Present(hunk, repo.wt[hunk.file])

\* C5: when the run is over, a file that is in no commit of the run is in the
\* working tree as it was at the start: same content, absent if it was absent.
C5_UncommittedFilesUntouched ==
  (Done /\ RestoreFaults = 0) => \A f \in Files :
            (\A i \in 1..Len(repo.log) : f \notin repo.log[i].paths)
              => repo.wt[f] = StartWt(world)[f]

\* C6: the function returns or rethrows only after both restoration steps were
\* attempted, the replay first and the write-back second, whatever the replay did.
C6_RestorationAlwaysRuns ==
  Done => /\ Len(restoreSteps) = 2
          /\ restoreSteps[1] \in {"replay done", "replay failed"}
          /\ restoreSteps[2] \in {"writeback done", "writeback failed"}

\* The loop was left by an exception, the replay failed, the write-back still ran.
C6_Witness ==
  /\ pc = "rethrown"
  /\ restoreSteps = <<"replay failed", "writeback done">>

\* C7: every commit of the run records no path besides the affected files of
\* its group (nothing staged before the run, nothing from an earlier group).
C7_OnlyGroupFilesStaged ==
  \A i \in 1..Len(repo.log) : repo.log[i].paths \subseteq repo.log[i].files

\* C8: a reference that occurs twice, in two groups or in one, does not get its
\* hunk applied twice: over all commits of the run each hunk is applied at most once.
C8_NoHunkAppliedTwice ==
  \A key \in RegistryKeys(allFileHunks) : SumApplied(repo.log, key) <= 1

C10_AscendingNumberOrder ==
  (/\ pc = "returned"
   /\ faults = 0
   /\ \A k \in 1..Len(commitResults) : commitResults[k].committed)
    => /\ Len(repo.log) = Len(groups)
       /\ \A i, j \in 1..Len(repo.log) :
            i < j => repo.log[i].number < repo.log[j].number

\* A step of the finally block failed.
RestorationFailed ==
  \E i \in 1..Len(restoreSteps) : restoreSteps[i] \in {"replay failed", "writeback failed"}

\* C11: a run whose restoration failed does not end like a run whose restoration
\* succeeded: the caller gets an error, the value returned carrying no flag
\* (Promise<CommitResult[]>, the results of the groups only).
C11_RestorationFailureVisible ==
  (Done /\ RestorationFailed) => pc = "rethrown"

\* C12: besides working-tree files, the staging area and the history, a run
\* changes nothing: user.name and user.email are what they were before it.
C12_GitConfigUnchanged ==
  Done => repo.config = StartConfig

(***************************************************************************)
(* Properties of the parsers.                                              *)
(***************************************************************************)
\* The change with every line of diff syntax replaced by plain text.
PlainText(ls) == [i \in 1..Len(ls) |-> IF ls[i] = DiffSyntax THEN "x" ELSE ls[i]]
PlainChange(c) ==
  [c EXCEPT !.old = PlainText(@),
            !.edits = [k \in 1..Len(@) |-> [@[k] EXCEPT !.ins = PlainText(@)]]]
\* The change adds such a line / its diff shows one as context or removed.
AddsDiffSyntax(c) == \E k \in 1..Len(c.edits) : DiffSyntax \in SeqToSet(c.edits[k].ins)
HoldsDiffSyntax(c) == DiffSyntax \in SeqToSet(c.old)

\* The file sections of a parser's output: files in order, each with its
\* hunks' ranges and sizes.
SectionsOfHunks(reg) ==
  [i \in 1..Len(reg) |->
     [file |-> reg[i].file,
      hunks |-> [j \in 1..Len(reg[i].hunks) |->
                   [reg[i].hunks[j] EXCEPT !.lines = Len(@)]]]]
SectionsOfDiffs(fds) ==
  [i \in 1..Len(fds) |->
     [fds[i] EXCEPT !.hunks = [j \in 1..Len(@) |-> [@[j] EXCEPT !.content = Len(@)]]]]

\* C13: a diff whose content lines ("+", "-" or " " and then text) hold the
\* text "diff --git a/" is cut into the same file sections as the diff without
\* that text, by parseDiffIntoHunks and by parseDiff: no further file entry,
\* no hunk moved to another file, no hunk cut short.
C13_NoPhantomSection ==
  (step \in {"parsed", "applied"} /\ (AddsDiffSyntax(change) \/ HoldsDiffSyntax(change)))
    => LET plain == DiffOf(PlainChange(change), staged)
       IN /\ SectionsOfHunks(fileHunks) = SectionsOfHunks(parseDiffIntoHunks(plain))
          /\ SectionsOfDiffs(fileDiffs) = SectionsOfDiffs(parseDiff(plain))

\* A diff with an added line of diff syntax has been parsed into one file entry.
C13_Witness ==
  /\ step = "parsed"
  /\ AddsDiffSyntax(change)
  /\ \E i \in 1..Len(diffOutput) : diffOutput[i].pieces = <<"+", DiffSyntax>>
  /\ Len(fileHunks) = 1
  /\ Len(fileDiffs) = 1

(***************************************************************************)
(* commit.ts: runCommit (both variants in the file) with the processors    *)
(* the approved plan is handed to: processCommits (commit.ts) and          *)
(* processAllCommitGroups (commit-processor.ts).                           *)
(***************************************************************************)
CmdFiles == {"a.ts", "b.ts"}

\* The two definitions of runCommit, named by where they start.
HunkPlanned == "commit.ts:11"
FilePlanned == "commit.ts:276"

\* git operations that change the index, the history or the configuration,
\* and those that only read.
WriteOps == {"reset", "add", "commit", "config"}
ReadOps == {"status", "diff", "config --get"}

\* The file lists of the groups the classifier may answer with.
Plans ==
  {<<>>, <<{"a.ts"}>>, <<{"a.ts", "b.ts"}>>, <<{"a.ts"}, {"b.ts"}>>,
   <<{"b.ts"}, {"b.ts"}>>}

\* config.getGitUsers(): the profiles the setup may have stored
Profiles == {StartConfig, GitUserInfo("bot", "bot@host")}

CmdInit ==
  /\ \E variant \in {HunkPlanned, FilePlanned} :
     \E stagedFiles \in SUBSET CmdFiles : \E unstagedFiles \in SUBSET CmdFiles :
     \E user \in {StartConfig, NullUser} :
       cli = [variant |-> variant, pc |-> "checks", selectedUser |-> NullUser,
              stagedOnlyMode |-> FALSE, groups |-> <<>>, gi |-> 1,
              processedFiles |-> {}, initialStaged |-> {},
              staged |-> stagedFiles, changed |-> stagedFiles \cup unstagedFiles,
              config |-> user, commits |-> <<>>]
  /\ gitOps = <<>>
  /\ confirm = "unasked"
  /\ RunIdle
  /\ PipeIdle
  /\ UiIdle
  /\ OrdIdle
  /\ LateIdle

\* commit.ts 14-31 and 279-306: the early returns on a missing key, a
\* directory that is no repository, a repository without changes.
RunCommitChecks ==
  /\ cli.pc = "checks"
  /\ \E configured \in BOOLEAN : \E isRepo \in BOOLEAN :
       LET hasChanges == cli.changed # {}
           ops == IF ~configured THEN <<>>
                  ELSE IF ~isRepo THEN <<"status">>
                  ELSE <<"status", "status">>
           next == IF ~(configured /\ isRepo /\ hasChanges) THEN "returned"
                   ELSE IF cli.variant = FilePlanned THEN "user"
                   ELSE "diff"
       IN /\ gitOps' = gitOps \o ops
          /\ cli' = [cli EXCEPT !.pc = next]
  /\ UNCHANGED <<confirm, runVars, pipeVars, uiVars, ordVars, lateVars>>

\* commit.ts 308-444: choose the identity to commit as; the repository's
\* configuration is only read.
RunCommitSelectUser ==
  /\ cli.pc = "user"
  /\ \E gitUsers \in SUBSET Profiles : \E flagFound \in BOOLEAN :
     \E chosen \in Profiles :
       IF gitUsers = {}
       THEN IF cli.config # NullUser
            THEN /\ gitOps' = gitOps \o <<"config --get", "config --get">>
                 /\ cli' = [cli EXCEPT !.pc = "diff", !.selectedUser = cli.config]
            ELSE /\ gitOps' = gitOps \o <<"config --get">>
                 /\ cli' = [cli EXCEPT !.pc = "returned"]
       ELSE IF ~flagFound
       THEN /\ gitOps' = gitOps
            /\ cli' = [cli EXCEPT !.pc = "returned"]
       ELSE /\ chosen \in gitUsers
            /\ gitOps' = gitOps \o <<"config --get">>
            /\ cli' = [cli EXCEPT !.pc = "diff", !.selectedUser = chosen]
  /\ UNCHANGED <<confirm, runVars, pipeVars, uiVars, ordVars, lateVars>>

\* commit.ts 33-56 and 447-527: read the diff; return when it is empty.
RunCommitDiff ==
  /\ cli.pc = "diff"
  /\ \E empty \in BOOLEAN :
       LET stagedOnlyMode == cli.variant = FilePlanned /\ cli.staged # {}
           ops == IF cli.variant = HunkPlanned THEN <<"diff", "diff">>
                  ELSE IF stagedOnlyMode THEN <<"status", "status", "diff">>
                  ELSE <<"status", "status", "diff", "diff">>
       IN /\ gitOps' = gitOps \o ops
          /\ cli' = [cli EXCEPT !.pc = IF empty THEN "returned" ELSE "analyze",
                                !.stagedOnlyMode = stagedOnlyMode]
  /\ UNCHANGED <<confirm, runVars, pipeVars, uiVars, ordVars, lateVars>>

\* commit.ts 536-575: in staged-only mode a group keeps its staged files and
\* a group that keeps none is dropped.
PruneToStaged(plan, stagedNow) ==
  LET kept == [i \in 1..Len(plan) |-> plan[i] \cap stagedNow]
  IN SelectSeq(kept, LAMBDA g : g # {})

\* commit.ts 84-115: each file goes to the first group that names it and a
\* group that is left without files is dropped.
FileBasedGroups(plan) ==
  LET firstOnly == [i \in 1..Len(plan) |->
                      plan[i] \ UNION {plan[j] : j \in 1..(i - 1)}]
  IN SelectSeq(firstOnly, LAMBDA g : g # {})

\* commit.ts 67-132 and 529-607: the classifier's answer becomes the plan,
\* which is displayed; no plan, no prompt.
RunCommitAnalyze ==
  /\ cli.pc = "analyze"
  /\ \E failed \in BOOLEAN : \E plan \in Plans :
       LET shown == IF cli.variant = HunkPlanned THEN FileBasedGroups(plan)
                    ELSE IF cli.stagedOnlyMode THEN PruneToStaged(plan, cli.staged)
                    ELSE plan
           ops == IF cli.variant = FilePlanned /\ cli.stagedOnlyMode /\ ~failed
                  THEN <<"status">> ELSE <<>>
       IN /\ gitOps' = gitOps \o ops
          /\ cli' = [cli EXCEPT !.pc = IF failed \/ shown = <<>> THEN "returned"
                                       ELSE "prompt",
                                !.groups = IF failed THEN <<>> ELSE shown]
  /\ UNCHANGED <<confirm, runVars, pipeVars, uiVars, ordVars, lateVars>>

\* A variant of the prompt that goes on to the processor whatever the answer.
RunCommitPrompt_AnswerIgnored ==
  /\ cli.pc = "prompt"
  /\ \E answer \in {"yes", "no"} :
       /\ confirm' = answer
       /\ cli' = [cli EXCEPT !.pc = "process"]
  /\ UNCHANGED <<gitOps, runVars, pipeVars, uiVars, ordVars, lateVars>>

\* commit.ts 134-147 and 609-621: the approval prompt and the return on "no".
RunCommitPrompt ==
  /\ cli.pc = "prompt"
  /\ \E answer \in {"yes", "no"} :
       /\ confirm' = answer
       /\ cli' = [cli EXCEPT !.pc = IF answer = "yes" THEN "process" ELSE "returned"]
  /\ UNCHANGED <<gitOps, runVars, pipeVars, uiVars, ordVars, lateVars>>

\* A variant of the preparation that unstages whatever the index holds.
ProcessStart_AlwaysUnstage ==
  /\ cli.pc = "process"
  /\ gitOps' = gitOps \o <<"status", "reset">>
  /\ cli' = [cli EXCEPT !.pc = "loop", !.initialStaged = cli.staged, !.staged = {}]
  /\ UNCHANGED <<confirm, runVars, pipeVars, uiVars, ordVars, lateVars>>

\* commit.ts 184 and commit-processor.ts 190-214: before the loop.
ProcessStart ==
  /\ cli.pc = "process"
  /\ IF cli.variant = HunkPlanned
     THEN /\ gitOps' = gitOps \o <<"reset">>
          /\ cli' = [cli EXCEPT !.pc = "loop", !.staged = {}]
     ELSE /\ gitOps' = gitOps \o (IF cli.staged = {} THEN <<"status", "reset">>
                                  ELSE <<"status">>)
          /\ cli' = [cli EXCEPT !.pc = "loop", !.initialStaged = cli.staged]
  /\ UNCHANGED <<confirm, runVars, pipeVars, uiVars, ordVars, lateVars>>

\* git commit of the index: the staged files become a commit.
CmdCommitted(c, files) ==
  [c EXCEPT !.commits = Append(c.commits, files),
            !.changed = c.changed \ files,
            !.staged = {}]

\* commit.ts 186-258: one group of processCommits.
ProcessCommitsGroup ==
  /\ cli.pc = "loop"
  /\ cli.variant = HunkPlanned
  /\ cli.gi <= Len(cli.groups)
  /\ \E fault \in {"none", "stage", "commit"} :
       LET filesToCommit == cli.groups[cli.gi] \ cli.processedFiles
           stagedNow == cli.staged \cup (filesToCommit \cap cli.changed)
           next == [cli EXCEPT !.gi = cli.gi + 1]
       IN IF filesToCommit = {}
          THEN /\ fault = "none"
               /\ gitOps' = gitOps
               /\ cli' = next
          ELSE IF fault = "stage"
          THEN /\ gitOps' = gitOps \o <<"add", "reset">>
               /\ cli' = [next EXCEPT !.staged = {}]
          ELSE IF stagedNow = {}
          THEN /\ fault = "none"
               /\ gitOps' = gitOps \o <<"add", "status">>
               /\ cli' = next
          ELSE IF fault = "commit"
          THEN /\ gitOps' = gitOps \o <<"add", "status", "commit", "reset">>
               /\ cli' = [next EXCEPT !.staged = {}]
          ELSE /\ gitOps' = gitOps \o <<"add", "status", "commit">>
               /\ cli' = [CmdCommitted(next, stagedNow) EXCEPT
                            !.processedFiles = cli.processedFiles \cup filesToCommit]
  /\ UNCHANGED <<confirm, runVars, pipeVars, uiVars, ordVars, lateVars>>

\* commit-processor.ts 216-294 with processCommitGroup (17-180): one group
\* of processAllCommitGroups.
ProcessCommitGroup ==
  /\ cli.pc = "loop"
  /\ cli.variant = FilePlanned
  /\ cli.gi <= Len(cli.groups)
  /\ \E fault \in {"none", "stage", "commit"} : \E first \in SUBSET CmdFiles :
       LET only == cli.stagedOnlyMode
           remainingFiles == cli.changed \ cli.processedFiles
           groupFiles == cli.groups[cli.gi] \cap remainingFiles
           filesToUse == IF only THEN cli.initialStaged \ cli.processedFiles
                         ELSE IF groupFiles # {} THEN groupFiles
                         ELSE first
           listed == IF only THEN <<>> ELSE <<"status">>
           filesToStage == IF only THEN {} ELSE filesToUse \ cli.staged
           staging == (IF only THEN <<>> ELSE <<"status">>)
                        \o (IF filesToStage # {} THEN <<"add">> ELSE <<>>)
           staged1 == cli.staged \cup filesToStage
           needsChange == cli.config # cli.selectedUser
           identity == <<"config --get">>
                         \o (IF needsChange THEN <<"config">> ELSE <<>>)
           unexpectedStaged == IF only THEN {} ELSE staged1 \ filesToUse
           fixing == (IF only THEN <<>> ELSE <<"status">>)
                       \o (IF unexpectedStaged # {} THEN <<"reset", "add">> ELSE <<>>)
           finalStaged == IF unexpectedStaged # {} THEN filesToUse ELSE staged1
           after == IF only THEN <<>> ELSE <<"reset">>
           marked == [cli EXCEPT
                        !.processedFiles = cli.processedFiles \cup filesToUse,
                        !.gi = IF only THEN Len(cli.groups) + 1 ELSE cli.gi + 1]
           unstaged(c) == IF only THEN c ELSE [c EXCEPT !.staged = {}]
       IN /\ IF only \/ groupFiles # {} THEN first = {}
             ELSE /\ first \subseteq remainingFiles
                  /\ Cardinality(first) = Min(1, Cardinality(remainingFiles))
          /\ IF filesToUse = {}
             THEN /\ fault = "none"
                  /\ gitOps' = gitOps \o listed
                  /\ cli' = [cli EXCEPT !.gi = cli.gi + 1]
             ELSE IF fault = "stage"
             THEN /\ filesToStage # {}
                  /\ gitOps' = gitOps \o listed \o staging \o after
                  /\ cli' = unstaged(marked)
             ELSE IF fault = "commit"
             THEN /\ gitOps' = gitOps \o listed \o staging \o identity \o fixing
                                 \o <<"status", "commit">> \o after
                  /\ cli' = unstaged([marked EXCEPT !.config = cli.selectedUser,
                                                    !.staged = finalStaged])
             ELSE /\ gitOps' = gitOps \o listed \o staging \o identity \o fixing
                                 \o <<"status", "commit", "config --get">> \o after
                  /\ cli' = CmdCommitted([marked EXCEPT !.config = cli.selectedUser],
                                         finalStaged)
  /\ UNCHANGED <<confirm, runVars, pipeVars, uiVars, ordVars, lateVars>>

\* commit.ts 153-169 and 629-663: the summary, after the last group.
RunCommitSummary ==
  /\ cli.pc = "loop"
  /\ cli.gi > Len(cli.groups)
  /\ cli' = [cli EXCEPT !.pc = "returned"]
  /\ UNCHANGED <<gitOps, confirm, runVars, pipeVars, uiVars, ordVars, lateVars>>

CmdNext ==
  \/ RunCommitChecks
  \/ RunCommitSelectUser
  \/ RunCommitDiff
  \/ RunCommitAnalyze
  \/ RunCommitPrompt
  \/ ProcessStart
  \/ ProcessCommitsGroup
  \/ ProcessCommitGroup
  \/ RunCommitSummary

SpecRunCommit == CmdInit /\ [][CmdNext]_vars

\* C14: in runCommit no stage, unstage, commit or git-config write is issued
\* before the user approved the displayed plan, and a run whose plan was
\* declined ends without any such operation.
C14_NoWriteBeforeApproval ==
  /\ (\E i \in 1..Len(gitOps) : gitOps[i] \in WriteOps) => confirm = "yes"
  /\ confirm = "no" => cli.pc = "returned"
  /\ \A i \in 1..Len(gitOps) : gitOps[i] \in WriteOps \cup ReadOps

\* C14's case: an approved plan whose processing unstaged, staged, wrote the
\* identity and committed.
C14_Witness ==
  /\ confirm = "yes"
  /\ cli.pc = "returned"
  /\ {"reset", "add", "config", "commit"} \subseteq SeqToSet(gitOps)

\* C24: in the normal mode of processAllCommitGroups (nothing was staged
\* when the run started) every path that is staged when a group's commit is
\* created is one of the files the approved plan lists for that group.
C24_CommitHoldsOnlyPlannedFiles ==
  [][(/\ cli.pc = "loop"
      /\ cli.variant = FilePlanned
      /\ ~cli.stagedOnlyMode
      /\ Len(cli'.commits) > Len(cli.commits))
       => cli'.commits[Len(cli'.commits)] \subseteq cli.groups[cli.gi]]_vars

\* The operations of the log that are the named one.
OpsNamed(op) == {i \in 1..Len(gitOps) : gitOps[i] = op}

Requests == {"r1", "r2"}

\* JSON.parse(body).groups: the file lists of a request's groups
UiPlans == {<<{"a.ts"}>>, <<{"b.ts"}>>, <<{"a.ts"}, {"b.ts"}>>}

UiInit ==
  /\ \E plans \in [Requests -> UiPlans] :
       requests = [r \in Requests |->
                     [groups |-> plans[r], gi |-> 1, at |-> "sent", committed |-> 0]]
  /\ uiRepo = [changed |-> CmdFiles, staged |-> {}, commits |-> <<>>]
  /\ RunIdle
  /\ PipeIdle
  /\ CmdIdle
  /\ OrdIdle
  /\ LateIdle

\* The handler of r is between its first await and its response.
InProgress(r) == requests[r].at \in {"unstage", "stage", "commit"}

\* part_007 2032-2040: the body has arrived and is parsed; the loop starts.
UiReceive(r) ==
  /\ requests[r].at = "sent"
  /\ requests' = [requests EXCEPT ![r].at = "unstage"]
  /\ UNCHANGED <<uiRepo, runVars, pipeVars, cmdVars, ordVars, lateVars>>

\* part_007 2045: await git.unstageAll()
UiUnstageAll(r) ==
  /\ requests[r].at = "unstage"
  /\ uiRepo' = [uiRepo EXCEPT !.staged = {}]
  /\ requests' = [requests EXCEPT ![r].at = "stage"]
  /\ UNCHANGED <<runVars, pipeVars, cmdVars, ordVars, lateVars>>

\* part_007 2042, 2046: await git.stageFiles(files); each staged path is
\* kept with the request that staged it.
UiStageFiles(r) ==
  /\ requests[r].at = "stage"
  /\ LET files == requests[r].groups[requests[r].gi]
         added == {[path |-> f, by |-> r] : f \in files \cap uiRepo.changed}
         kept == {e \in uiRepo.staged : e.path \notin files}
     IN uiRepo' = [uiRepo EXCEPT !.staged = kept \cup added]
  /\ requests' = [requests EXCEPT ![r].at = "commit"]
  /\ UNCHANGED <<runVars, pipeVars, cmdVars, ordVars, lateVars>>

\* part_007 2053-2062: await git.createCommit(message), which commits the
\* whole index; then the next group or the response.  With nothing staged
\* git refuses: the handler answers 500 or counts the group all the same.
UiCreateCommit(r) ==
  /\ requests[r].at = "commit"
  /\ \E throws \in BOOLEAN :
       LET q == requests[r]
           last == q.gi = Len(q.groups)
           counted == [q EXCEPT !.committed = q.committed + 1,
                                !.gi = q.gi + 1,
                                !.at = IF last THEN "answered 200" ELSE "unstage"]
       IN IF uiRepo.staged = {}
          THEN /\ uiRepo' = uiRepo
               /\ requests' = [requests EXCEPT
                                 ![r] = IF throws THEN [q EXCEPT !.at = "answered 500"]
                                        ELSE counted]
          ELSE /\ ~throws
               /\ uiRepo' = [uiRepo EXCEPT
                    !.commits = Append(uiRepo.commits, [by |-> r, staged |-> uiRepo.staged]),
                    !.changed = uiRepo.changed \ {e.path : e \in uiRepo.staged},
                    !.staged = {}]
               /\ requests' = [requests EXCEPT ![r] = counted]
  /\ UNCHANGED <<runVars, pipeVars, cmdVars, ordVars, lateVars>>

UiNext ==
  \E r \in Requests :
    \/ UiReceive(r)
    \/ UiUnstageAll(r)
    \/ UiStageFiles(r)
    \/ UiCreateCommit(r)

SpecUI == UiInit /\ [][UiNext]_vars

\* C15: the server does not start a commit run while another is in progress:
\* two POST /api/commit requests are never in their unstage/stage/commit steps
\* at once, and no commit contains a path staged by the other request.
C15_RunsDoNotInterleave ==
  /\ \A r1 \in Requests : \A r2 \in Requests \ {r1} :
       ~(InProgress(r1) /\ InProgress(r2))
  /\ \A i \in 1..Len(uiRepo.commits) :
       \A e \in uiRepo.commits[i].staged : e.by = uiRepo.commits[i].by

\* The steps of a group named by what they issue: ResetToBaseline is the
\* checkout, ApplyGroupHunks the write, Stage the add, Commit the commit.
GroupSteps == {"reset", "write", "add", "commit"}

\* C16: when the reset to the baseline, the application of the hunks, the
\* staging or the commit of a group fails, the group's CommitResult has
\* success = false, no commit was created for the group, and the loop goes on
\* to the next group (every group has its result when the run returns).
C16_FailedStepFailsGroup ==
  /\ \A i \in 1..Len(commitResults) :
       commitResults[i].failed \cap GroupSteps # {}
         => ~commitResults[i].success /\ ~commitResults[i].committed
  /\ (pc = "returned" /\ ~thrown) => Len(commitResults) = Len(groups)

\* C17: the snapshot of every file referenced by a group is complete before
\* the run's first checkout, write, stage, unstage or commit, it is taken
\* once, and its originalContent/workingContent values are never modified:
\* until it is taken nothing has been touched, and from then on it is the
\* snapshot of the repository the run started in.
C17_SnapshotOnceBeforeMutation ==
  /\ pc = "prepare" =>
       /\ repo = StartRepo(world)
       /\ fileStates = <<>>
       /\ commitResults = <<>>
       /\ restoreSteps = <<>>
  /\ pc \in {"loop", "restore", "writeback", "returned", "rethrown"} =>
       /\ fileStates = saveFileStates(StartRepo(world), allFiles)
       /\ {fileStates[i].file : i \in 1..Len(fileStates)}
            = UNION {{groups[k].hunks[i].file : i \in 1..Len(groups[k].hunks)}
                       : k \in 1..Len(groups)}

\* C17's case: groups were committed and the restoration has run, the
\* repository is no longer the one the run started in, and the snapshot holds
\* a file whose working content differs from HEAD's.
C17_Witness ==
  /\ pc = "returned"
  /\ \E i \in 1..Len(commitResults) : commitResults[i].committed
  /\ repo # StartRepo(world)
  /\ \E i \in 1..Len(fileStates) :
       fileStates[i].workingContent # fileStates[i].originalContent

\* C28: at the end of a run whose final write-back succeeded every file of
\* the snapshot reads in the working tree as its workingContent, which is
\* what it read as before the run, whatever the groups and the replay of
\* the uncommitted hunks wrote.
C28_WorkingContentRestored ==
  (/\ pc \in {"returned", "rethrown"}
   /\ restoreSteps # <<>>
   /\ restoreSteps[Len(restoreSteps)] = "writeback done") =>
    \A i \in 1..Len(fileStates) :
      /\ getWorkingFileContent(repo, fileStates[i].file) = fileStates[i].workingContent
      /\ getWorkingFileContent(repo, fileStates[i].file)
           = getWorkingFileContent(StartRepo(world), fileStates[i].file)

\* C28: a run that committed a group, replayed uncommitted hunks and wrote
\* the snapshot back, over a file whose working content differs from HEAD's.
C28_Witness ==
  /\ pc = "returned"
  /\ restoreSteps # <<>>
  /\ restoreSteps[Len(restoreSteps)] = "writeback done"
  /\ \E i \in 1..Len(commitResults) : commitResults[i].committed
  /\ reApplied # {}
  /\ \E i \in 1..Len(fileStates) :
       fileStates[i].workingContent # getOriginalFileContent(repo, fileStates[i].file)

\* C18: in the output of the parser no two entries carry the same file path,
\* also when the raw diff holds an unstaged and a staged section of one file.
C18_UniqueFilePaths ==
  step \in {"parsed", "applied"} =>
    /\ \A i \in 1..Len(fileDiffs) : \A j \in 1..Len(fileDiffs) :
         fileDiffs[i].file = fileDiffs[j].file => i = j
    /\ \A i \in 1..Len(fileHunks) : \A j \in 1..Len(fileHunks) :
         fileHunks[i].file = fileHunks[j].file => i = j

\* The number of lines of a hunk that carry one of the tags.
Tally(hunk, tags) ==
  Cardinality({i \in 1..Len(hunk.lines) : hunk.lines[i].tag \in tags})

\* C19: for every hunk parseDiffIntoHunks returns, the context and deletion
\* lines number oldLines and the context and addition lines number newLines,
\* whether the header gives both counts, omits a count or gives the count 0.
C19_CountsMatchLines ==
  step \in {"parsed", "applied"} =>
    \A i \in 1..Len(fileHunks) : \A j \in 1..Len(fileHunks[i].hunks) :
      LET hunk == fileHunks[i].hunks[j]
      IN /\ Tally(hunk, {" ", "-"}) = hunk.oldLines
         /\ Tally(hunk, {" ", "+"}) = hunk.newLines

(***************************************************************************)
(* hunk-applier.ts: applyHunksToFile called with the hunks of one file in  *)
(* any order.  The hunks are those parseDiffIntoHunks makes of the diff of *)
(* a file changed at up to three places that git prints as separate hunks. *)
(***************************************************************************)
OrderOld ==
  <<"o1", "o2", "o3", "o4", "o5", "o6", "o7", "o8", "o9", "o10",
    "o11", "o12", "o13", "o14", "o15", "o16", "o17", "o18", "o19">>

\* What may happen at one place: a line inserted, removed, rewritten.
EditsAt(at) ==
  {<<>>,
   <<[at |-> at, del |-> 0, ins |-> <<"N">>]>>,
   <<[at |-> at, del |-> 1, ins |-> <<>>]>>,
   <<[at |-> at, del |-> 1, ins |-> <<"R", "S">>]>>}

OrderChanges ==
  {[file |-> "auth", old |-> OrderOld, isNew |-> FALSE, isDeleted |-> FALSE,
    edits |-> e1 \o e2 \o e3] :
     <<e1, e2, e3>> \in
       {t \in EditsAt(2) \X EditsAt(10) \X EditsAt(18) : t # <<<<>>, <<>>, <<>>>>}}

\* The lists of at most three of the given hunks, repetitions included.
ListsOf(hunks) ==
  UNION {[1..n -> SeqToSet(hunks)] : n \in 1..Len(hunks)}

OrdInit ==
  /\ original \in OrderChanges
  /\ hunkList = <<>>
  /\ modified = <<>>
  /\ called = "changed"
  /\ RunIdle
  /\ PipeIdle
  /\ CmdIdle
  /\ UiIdle
  /\ LateIdle

\* The caller's list: hunks of the file taken from the parser's output.
OrdParse ==
  /\ called = "changed"
  /\ LET parsed == parseDiffIntoHunks(getFullDiff(<<original>>, <<>>))
     IN hunkList' \in ListsOf(FileHunksOf(parsed, original.file)[1].hunks)
  /\ called' = "parsed"
  /\ UNCHANGED <<original, modified, runVars, pipeVars, cmdVars, uiVars, lateVars>>

\* applyHunksToFile(originalContent, hunks)
OrdApply ==
  /\ called = "parsed"
  /\ modified' = applyHunksToFile(TextFile(original.old), hunkList)
  /\ called' = "applied"
  /\ UNCHANGED <<original, hunkList, runVars, pipeVars, cmdVars, uiVars, lateVars>>

OrdNext == OrdParse \/ OrdApply

SpecApplyOrder == OrdInit /\ [][OrdNext]_vars

\* No two hunks of the list share a line of the original content.
NonOverlapping(hunks) ==
  \A i \in 1..Len(hunks) : \A j \in 1..Len(hunks) :
    i # j => \/ hunks[i].oldStart + hunks[i].oldLines <= hunks[j].oldStart
             \/ hunks[j].oldStart + hunks[j].oldLines <= hunks[i].oldStart

\* The hunks applied one at a time, the one with the highest oldStart first.
RECURSIVE HighestFirst(_, _)
HighestFirst(content, hunks) ==
  IF hunks = {} THEN content
  ELSE LET h == CHOOSE h \in hunks : \A g \in hunks : g.oldStart <= h.oldStart
       IN HighestFirst(applyHunksToFile(content, <<h>>), hunks \ {h})

\* C20: for pairwise non-overlapping hunks of one file applyHunksToFile
\* returns, whatever the order of the list, the content obtained by applying
\* the hunks one at a time from the highest oldStart to the lowest.
C20_OrderIndependent ==
  (called = "applied" /\ NonOverlapping(hunkList))
    => modified = HighestFirst(TextFile(original.old), SeqToSet(hunkList))

\* C20's case: three hunks given lowest first, the first of which changes the
\* number of lines, have been applied.
C20_Witness ==
  /\ called = "applied"
  /\ Len(hunkList) = 3
  /\ NonOverlapping(hunkList)
  /\ hunkList[1].oldStart < hunkList[2].oldStart
  /\ hunkList[2].oldStart < hunkList[3].oldStart
  /\ hunkList[1].oldLines # hunkList[1].newLines
  /\ modified # TextFile(original.old)

\* C21: applying a hunk never reads outside the line array: every line of
\* the result is a line of the input content or an addition/context line of
\* the hunk, and no undefined line is emitted (also for oldStart = 0 and for
\* an old range that extends past the end of the content).
C21_NoReadOutsideLines ==
  step = "applied" =>
    LET content == CommittedContent(change)
        hunks == FileHunksOf(fileHunks, change.file)[1].hunks
    IN \A k \in 1..Len(hunks) :
         LET out == applyHunk(content, hunks[k])
             emitted == {hunks[k].lines[i].text :
                           i \in {j \in 1..Len(hunks[k].lines) :
                                    hunks[k].lines[j].tag \in {"+", " "}}}
         IN \A i \in 1..Len(out) :
              /\ out[i] # Undefined
              /\ out[i] \in SeqToSet(content) \cup emitted

\* hunk-parser.ts 141-160: formatHunksForAI, by the heading it prints for
\* each hunk: position k of the sequence is index k - 1 of the array, shown
\* as "--- Hunk ${idx + 1} ---".
formatHunksForAI(fhs) ==
  [f \in 1..Len(fhs) |->
     [file |-> fhs[f].file,
      total |-> Len(fhs[f].hunks),
      shown |-> [k \in 1..Len(fhs[f].hunks) |->
                   [number |-> (k - 1) + 1, oldStart |-> fhs[f].hunks[k].oldStart,
                    newStart |-> fhs[f].hunks[k].newStart]]]]

\* C29: a reference that carries the number formatHunksForAI shows for a
\* hunk as its hunkIndex is resolved by processHunkCommitGroup to that hunk.
C29_DisplayedNumberResolves ==
  step \in {"parsed", "applied"} =>
    \A f \in 1..Len(fileHunks) : \A k \in 1..Len(fileHunks[f].hunks) :
      LET shown == formatHunksForAI(fileHunks)[f].shown[k]
          hunkId == HunkIdentifier(fileHunks[f].file, shown.number)
      IN /\ Resolves(fileHunks, hunkId)
         /\ HunkOf(fileHunks, hunkId) = fileHunks[f].hunks[k]

(***************************************************************************)
(* utils/commit-file.ts: writeCommitFile, parseCommitFile, parseCommitLines *)
(* and mergeEditedCommits, with the user's editor between writing and      *)
(* reading.  A line of the file is the tuple of the pieces of its text     *)
(* (the empty line has none); a commit body is the tuple of its lines.     *)
(***************************************************************************)
MaxGroups == 3

\* const SEPARATOR = "# ========"; const COMMENT_PREFIX = "#"
SEPARATOR == <<"#", " ========">>
COMMENT_PREFIX == "#"

\* line.trim().startsWith(COMMENT_PREFIX): the pieces that begin with "#"
HashPieces == {"#", "#42 closed"}
IsCommentLine(line) == line # <<>> /\ line[1] \in HashPieces
\* line.trim() === SEPARATOR.substring(2).trim(), i.e. "========"
IsSeparatorLine(line) == line = <<"========">>
\* !line.trim()
IsEmptyLine(line) == line = <<>>
\* the text of a line that is kept as part of a commit
TextOf(line) == IF line = <<>> THEN "" ELSE line[1]

\* The CommitGroup lists that are written: group i has message "m<i>".
Messages == <<"m1", "m2", "m3", "m4">>
Bodies == {<<>>, <<"b1">>, <<"b1", "b2">>, <<"b1", "#42 closed">>}
GroupLists ==
  UNION {{[i \in 1..n |->
             [number |-> i, description |-> "d", files |-> <<"f">>,
              commitMessage |-> Messages[i], commitBody |-> bodies[i]]] :
            bodies \in [1..n -> Bodies]} : n \in 1..MaxGroups}

\* commit-file.ts 16-31
FileHeader ==
  <<<<"#", " Git-AI Commit Messages">>,
    <<"#", " Edit the commit messages below. Lines starting with # are ignored.">>,
    <<"#", " Each commit is separated by: ", "# ========">>,
    <<"#">>,
    <<"#", " Format: First line is the commit message">>,
    <<"#", "         Followed by an empty line and detailed body (optional)">>,
    <<"#">>,
    <<"#", " TIP: You can delete a commit section entirely to skip that commit.">>,
    <<>>>>

\* commit-file.ts 41-52: the section of one group
Section(group) ==
  <<<<"#", " Group ", group.description>>, <<"#", " Files: ", "f">>,
    <<group.commitMessage>>>>
  \o (IF group.commitBody # <<>>
      THEN <<<<>>>> \o [i \in 1..Len(group.commitBody) |-> <<group.commitBody[i]>>]
      ELSE <<>>)

\* commit-file.ts 35-39: what precedes the section of a group but the first
Between == <<<<>>, SEPARATOR, <<>>>>

\* The file with the given sections (<<>> where the user removed one) and the
\* given separator blocks.
RECURSIVE Assemble(_, _, _)
Assemble(sections, separated, i) ==
  IF i > Len(sections) THEN <<>>
  ELSE (IF i > 1 /\ separated[i] THEN Between ELSE <<>>)
         \o sections[i] \o Assemble(sections, separated, i + 1)

writeCommitFile(gs) ==
  FileHeader \o Assemble([i \in 1..Len(gs) |-> Section(gs[i])],
                         [i \in 1..Len(gs) |-> TRUE], 1)

\* What the user may do in the editor: nothing, or delete the section of
\* group `deleted` (with or without the separator block that precedes or
\* follows it), and rewrite the message of group `retitled`.
NoEdit == [deleted |-> 0, separatorToo |-> FALSE, retitled |-> 0]
Edits(gs) ==
  {NoEdit}
  \cup {e \in [deleted : 1..Len(gs), separatorToo : BOOLEAN,
                 retitled : 0..Len(gs)] : e.retitled # e.deleted}
Retitled(group) == [group EXCEPT !.commitMessage = "edited"]

EditedFile(gs, e) ==
  LET n == Len(gs)
      shown(i) == IF i = e.retitled THEN Retitled(gs[i]) ELSE gs[i]
      sections == [i \in 1..n |-> IF i = e.deleted THEN <<>> ELSE Section(shown(i))]
      dropped == IF ~e.separatorToo THEN 0
                 ELSE IF e.deleted = 1 THEN 2 ELSE e.deleted
  IN FileHeader \o Assemble(sections, [i \in 1..n |-> i # dropped], 1)

\* commit-file.ts 112-145
RECURSIVE StripLeading(_)
StripLeading(lines) ==
  IF lines # <<>> /\ IsEmptyLine(Head(lines)) THEN StripLeading(Tail(lines)) ELSE lines
RECURSIVE StripTrailing(_)
StripTrailing(lines) ==
  IF lines # <<>> /\ IsEmptyLine(lines[Len(lines)])
  THEN StripTrailing(SubSeq(lines, 1, Len(lines) - 1)) ELSE lines
parseCommitLines(lines) ==
  LET kept == StripTrailing(StripLeading(lines))
      bodyLines == IF kept = <<>> THEN <<>> ELSE StripLeading(Tail(kept))
  IN IF kept = <<>> THEN [message |-> "", body |-> <<>>]
     ELSE [message |-> TextOf(kept[1]),
           body |-> [i \in 1..Len(bodyLines) |-> TextOf(bodyLines[i])]]

\* commit-file.ts 73-99: one iteration of the loop over the lines
ParseFileLine(st, line) ==
  IF IsCommentLine(line) THEN st
  ELSE IF IsSeparatorLine(line)
  THEN IF st.currentCommit # <<>>
       THEN [commits |-> Append(st.commits, parseCommitLines(st.currentCommit)),
             currentCommit |-> <<>>, inCommit |-> FALSE]
       ELSE st
  ELSE IF ~IsEmptyLine(line) \/ st.inCommit
  THEN [st EXCEPT !.currentCommit = Append(@, line),
                  !.inCommit = st.inCommit \/ ~IsEmptyLine(line)]
  ELSE st

RECURSIVE ParseFileLines(_, _)
ParseFileLines(st, lines) ==
  IF lines = <<>> THEN st
  ELSE ParseFileLines(ParseFileLine(st, Head(lines)), Tail(lines))

\* commit-file.ts 62-107
parseCommitFile(lines) ==
  LET st == ParseFileLines([commits |-> <<>>, currentCommit |-> <<>>,
                            inCommit |-> FALSE], lines)
  IN IF st.currentCommit # <<>>
     THEN Append(st.commits, parseCommitLines(st.currentCommit))
     ELSE st.commits

\* commit-file.ts 179-204
RECURSIVE MergeFrom(_, _, _)
MergeFrom(gs, commits, i) ==
  IF i > Min(Len(gs), Len(commits)) THEN <<>>
  ELSE (IF commits[i].message = "" THEN <<>>
        ELSE <<[gs[i] EXCEPT
                  !.commitMessage = commits[i].message,
                  !.commitBody = IF commits[i].body # <<>> THEN commits[i].body
                                 ELSE gs[i].commitBody]>>)
       \o MergeFrom(gs, commits, i + 1)
mergeEditedCommits(gs, commits) == MergeFrom(gs, commits, 1)

FileInit ==
  /\ originalGroups \in GroupLists
  /\ fileLines = <<>>
  /\ edit = NoEdit
  /\ editedCommits = <<>>
  /\ updatedGroups = <<>>
  /\ fileStep = "planned"
  /\ RunIdle
  /\ PipeIdle
  /\ CmdIdle
  /\ UiIdle
  /\ OrdIdle
  /\ ConvIdle
  /\ BounceIdle
  /\ UserIdle

outsideFile == <<runVars, pipeVars, cmdVars, uiVars, ordVars, convVars, bounceVars, userVars>>

FileWrite ==
  /\ fileStep = "planned"
  /\ fileLines' = writeCommitFile(originalGroups)
  /\ fileStep' = "written"
  /\ UNCHANGED <<originalGroups, edit, editedCommits, updatedGroups, outsideFile>>

FileEdit ==
  /\ fileStep = "written"
  /\ \E e \in Edits(originalGroups) :
       /\ edit' = e
       /\ fileLines' = EditedFile(originalGroups, e)
  /\ fileStep' = "edited"
  /\ UNCHANGED <<originalGroups, editedCommits, updatedGroups, outsideFile>>

FileParse ==
  /\ fileStep = "edited"
  /\ editedCommits' = parseCommitFile(fileLines)
  /\ fileStep' = "parsed"
  /\ UNCHANGED <<originalGroups, fileLines, edit, updatedGroups, outsideFile>>

FileMerge ==
  /\ fileStep = "parsed"
  /\ updatedGroups' = mergeEditedCommits(originalGroups, editedCommits)
  /\ fileStep' = "merged"
  /\ UNCHANGED <<originalGroups, fileLines, edit, editedCommits, outsideFile>>

FileNext == FileWrite \/ FileEdit \/ FileParse \/ FileMerge

SpecCommitFile == FileInit /\ [][FileNext]_vars

\* C22: parseCommitFile applied to the file writeCommitFile wrote returns one
\* commit per group, in order, with the group's commitMessage and commitBody.
C22_CommitFileRoundTrip ==
  (fileStep \in {"parsed", "merged"} /\ edit = NoEdit) =>
    editedCommits = [i \in 1..Len(originalGroups) |->
                       [message |-> originalGroups[i].commitMessage,
                        body |-> originalGroups[i].commitBody]]

\* C23: when the user deleted the section of group k, mergeEditedCommits
\* returns every other group, in order, each with the message written in its
\* own section (rewritten or not) and its own body.
C23_DeletedSectionSkipsItsGroup ==
  (fileStep = "merged" /\ edit.deleted # 0) =>
    updatedGroups =
      SelectSeq([i \in 1..Len(originalGroups) |->
                   IF i = edit.retitled THEN Retitled(originalGroups[i])
                   ELSE originalGroups[i]],
                LAMBDA g : g.number # edit.deleted)

\* ---------------------------------------------------------------------
\* runCommit (commit.ts 11-169): from groups of hunks to groups of files.

MaxPlanGroups == 3
MaxGroupHunks == 2

\* The hunks the classifier may reference: two of a.ts, one of b.ts.
HunkRefs ==
  {[file |-> "a.ts", hunkIndex |-> 0], [file |-> "a.ts", hunkIndex |-> 1],
   [file |-> "b.ts", hunkIndex |-> 0]}

HunkLists == UNION {[1..n -> HunkRefs] : n \in 0..MaxGroupHunks}

\* result.groups: the groups are numbered in list order.
AiAnswers ==
  UNION {{[i \in 1..n |-> [number |-> i, hunks |-> hl[i]]] : hl \in [1..n -> HunkLists]} :
           n \in 0..MaxPlanGroups}

\* A variant of the inner loop that pushes the file of every hunk.
FilesInGroup_Unchecked(hunks, k, fileToGroup, filesInGroup) ==
  [i \in 1..Len(hunks) |-> hunks[i].file]

\* commit.ts 96-104: the inner loop over one group's hunks; fileToGroup is
\* the set of keys of the map.
RECURSIVE FilesInGroup(_, _, _, _)
FilesInGroup(hunks, k, fileToGroup, filesInGroup) ==
  IF k > Len(hunks) THEN filesInGroup
  ELSE IF hunks[k].file \in fileToGroup
       THEN FilesInGroup(hunks, k + 1, fileToGroup, filesInGroup)
       ELSE FilesInGroup(hunks, k + 1, fileToGroup \cup {hunks[k].file},
                         Append(filesInGroup, hunks[k].file))

\* commit.ts 93-115: the loop over the groups.
RECURSIVE ConvertFrom(_, _, _, _)
ConvertFrom(gs, i, fileToGroup, acc) ==
  IF i > Len(gs) THEN acc
  ELSE LET filesInGroup == FilesInGroup(gs[i].hunks, 1, fileToGroup, <<>>)
       IN ConvertFrom(gs, i + 1, fileToGroup \cup SeqToSet(filesInGroup),
                      IF Len(filesInGroup) > 0
                      THEN Append(acc, [number |-> gs[i].number, files |-> filesInGroup])
                      ELSE acc)

ConvertToFileGroups(gs) == ConvertFrom(gs, 1, {}, <<>>)

\* commit.ts 186-200: processCommits leaves out the files an earlier group
\* has committed; a group left without files is skipped.
RECURSIVE FilesToCommitFrom(_, _, _, _)
FilesToCommitFrom(gs, i, committedFiles, acc) ==
  IF i > Len(gs) THEN acc
  ELSE LET filesToCommit == SelectSeq(gs[i].files, LAMBDA f : f \notin committedFiles)
       IN FilesToCommitFrom(gs, i + 1, committedFiles \cup SeqToSet(filesToCommit),
                            Append(acc, filesToCommit))

ConvInit ==
  /\ aiGroups = <<>>
  /\ fileBasedGroups = <<>>
  /\ toCommit = <<>>
  /\ convStep = "diffed"
  /\ RunIdle
  /\ PipeIdle
  /\ CmdIdle
  /\ UiIdle
  /\ OrdIdle
  /\ FileIdle
  /\ BounceIdle
  /\ UserIdle

outsideConv == <<runVars, pipeVars, cmdVars, uiVars, ordVars, fileVars, bounceVars, userVars>>

\* commit.ts 67-82: the classifier answers; no group, no plan.
ConvAnalyze ==
  /\ convStep = "diffed"
  /\ \E answer \in AiAnswers :
       /\ aiGroups' = answer
       /\ convStep' = IF Len(answer) = 0 THEN "returned" ELSE "analyzed"
  /\ UNCHANGED <<fileBasedGroups, toCommit, outsideConv>>

\* commit.ts 84-120: the conversion; no file group, no plan.
ConvConvert ==
  /\ convStep = "analyzed"
  /\ fileBasedGroups' = ConvertToFileGroups(aiGroups)
  /\ convStep' = IF Len(fileBasedGroups') = 0 THEN "returned" ELSE "converted"
  /\ UNCHANGED <<aiGroups, toCommit, outsideConv>>

\* commit.ts 150 and 179-200: the approved plan goes to processCommits.
ConvProcess ==
  /\ convStep = "converted"
  /\ toCommit' = FilesToCommitFrom(fileBasedGroups, 1, {}, <<>>)
  /\ convStep' = "processed"
  /\ UNCHANGED <<aiGroups, fileBasedGroups, outsideConv>>

ConvNext == ConvAnalyze \/ ConvConvert \/ ConvProcess

SpecConvert == ConvInit /\ [][ConvNext]_vars

\* The files the classifier's groups reference and, for a file, the number
\* of the first group in list order that references one of its hunks.
ReferencedFiles ==
  UNION {{aiGroups[i].hunks[k].file : k \in 1..Len(aiGroups[i].hunks)} :
           i \in 1..Len(aiGroups)}

FirstGroupOf(f) ==
  LET referencing == {i \in 1..Len(aiGroups) :
                        \E k \in 1..Len(aiGroups[i].hunks) : aiGroups[i].hunks[k].file = f}
  IN aiGroups[CHOOSE i \in referencing : \A j \in referencing : i <= j].number

\* C26: after the conversion every file some group references is in
\* exactly one file group, once, and that group is the first group in list
\* order that references one of its hunks; the file groups keep the list
\* order, none is empty, and processCommits leaves no file of them out.
C26_FileInFirstGroupOnly ==
  convStep \in {"converted", "processed", "returned"} /\ Len(aiGroups) > 0 =>
    /\ \A f \in ReferencedFiles :
         \E i \in 1..Len(fileBasedGroups) :
           /\ fileBasedGroups[i].number = FirstGroupOf(f)
           /\ Cardinality({k \in 1..Len(fileBasedGroups[i].files) :
                             fileBasedGroups[i].files[k] = f}) = 1
           /\ \A j \in 1..Len(fileBasedGroups) :
                j # i => f \notin SeqToSet(fileBasedGroups[j].files)
    /\ \A i \in 1..Len(fileBasedGroups) :
         /\ fileBasedGroups[i].files # <<>>
         /\ SeqToSet(fileBasedGroups[i].files) \subseteq ReferencedFiles
         /\ \A j \in 1..Len(fileBasedGroups) :
              i < j => fileBasedGroups[i].number < fileBasedGroups[j].number
    /\ convStep = "processed" =>
         toCommit = [i \in 1..Len(fileBasedGroups) |-> fileBasedGroups[i].files]

\* C26: a plan of three groups where the second only references a file of
\* the first and the third brings a new file next to an old one.
C26_Witness ==
  /\ convStep = "processed"
  /\ Len(aiGroups) = 3
  /\ Len(fileBasedGroups) = 2
  /\ fileBasedGroups[2] = [number |-> 3, files |-> <<"b.ts">>]
  /\ Len(aiGroups[3].hunks) = 2

\* ---------------------------------------------------------------------
\* config.ts: removeGitUser.

MaxRemoves == 2

\* JSON null: no default user, no shortcut.
Null == "<null>"

\* The stored profiles: an e-mail in mixed case, a profile without
\* shortcut, and an id that reads like another profile's shortcut.
GitUserProfiles ==
  {[id |-> "id1", email |-> "Me@Host", shortcut |-> "w"],
   [id |-> "id2", email |-> "bot@host", shortcut |-> Null],
   [id |-> "w", email |-> "w@host", shortcut |-> "b"]}

\* The identifiers a caller may pass.
Identifiers ==
  {"id1", "ID1", "id2", "w", " W ", "b", "Me@Host", "me@host", "ME@HOST",
   "bot@host", "nobody"}

\* identifier.toLowerCase().trim(), and email.toLowerCase()
ToLowerTrim(text) ==
  CASE text \in {"ID1"} -> "id1"
    [] text \in {" W "} -> "w"
    [] text \in {"Me@Host", "ME@HOST"} -> "me@host"
    [] OTHER -> text

\* The lists of distinct profiles.
ProfileLists ==
  {us \in UNION {[1..n -> GitUserProfiles] : n \in 0..Cardinality(GitUserProfiles)} :
     \A i \in 1..Len(us) : \A j \in 1..Len(us) : i # j => us[i] # us[j]}

StoredIds(config) == {config.gitUsers[i].id : i \in 1..Len(config.gitUsers)}

\* The default is null or the id of a stored profile.
DefaultIsStored(config) ==
  config.defaultGitUser = Null \/ config.defaultGitUser \in StoredIds(config)

\* config.ts 133-140: users.findIndex(...), 0 for -1.
FindIndex(users, identifier) ==
  LET identifierLower == ToLowerTrim(identifier)
      matches == {i \in 1..Len(users) :
                    \/ users[i].id = identifier
                    \/ users[i].id = identifierLower
                    \/ users[i].email = identifier
                    \/ ToLowerTrim(users[i].email) = identifierLower
                    \/ users[i].shortcut = identifierLower}
  IN IF matches = {} THEN 0 ELSE CHOOSE i \in matches : \A j \in matches : i <= j

\* users.splice(userIndex, 1)
Splice(users, userIndex) ==
  [i \in 1..(Len(users) - 1) |-> IF i < userIndex THEN users[i] ELSE users[i + 1]]

\* A variant that leaves the default as it is.
removeGitUser_KeepDefault(config, identifier) ==
  LET userIndex == FindIndex(config.gitUsers, identifier)
  IN IF ~config.exists \/ userIndex = 0 THEN [write |-> FALSE, config |-> config]
     ELSE [write |-> TRUE,
           config |-> [config EXCEPT !.gitUsers = Splice(config.gitUsers, userIndex)]]

\* config.ts 124-157: whether writeConfig is reached, and with what.
removeGitUser(config, identifier) ==
  LET userIndex == FindIndex(config.gitUsers, identifier)
  IN IF ~config.exists \/ userIndex = 0 THEN [write |-> FALSE, config |-> config]
     ELSE LET removedUser == config.gitUsers[userIndex]
              wasDefault == config.defaultGitUser = removedUser.id
              users == Splice(config.gitUsers, userIndex)
          IN [write |-> TRUE,
              config |-> [config EXCEPT
                            !.gitUsers = users,
                            !.defaultGitUser =
                               IF wasDefault
                               THEN IF Len(users) > 0 THEN users[1].id ELSE Null
                               ELSE @]]

outsideUser == <<runVars, pipeVars, cmdVars, uiVars, ordVars, fileVars, convVars,
                 bounceVars>>

\* The stored file before the first call: none (or one without profiles),
\* or profiles with a default that is null or one of their ids.
UserInit ==
  /\ \E exists \in BOOLEAN : \E users \in ProfileLists :
     \E default \in {Null} \cup {p.id : p \in GitUserProfiles} :
       /\ stored = [exists |-> exists,
                    gitUsers |-> IF exists THEN users ELSE <<>>,
                    defaultGitUser |-> IF exists THEN default ELSE Null]
       /\ DefaultIsStored(stored)
  /\ lastRemove = [calls |-> 0]
  /\ RunIdle
  /\ PipeIdle
  /\ CmdIdle
  /\ UiIdle
  /\ OrdIdle
  /\ FileIdle
  /\ ConvIdle
  /\ BounceIdle

\* One call of removeGitUser; writeConfig may fail and leave the file.
RemoveGitUser ==
  /\ lastRemove.calls < MaxRemoves
  /\ \E identifier \in Identifiers : \E written \in BOOLEAN :
       LET call == removeGitUser(stored, identifier)
       IN /\ ~call.write => written = FALSE
          /\ stored' = IF written THEN call.config ELSE stored
          /\ lastRemove' = [calls |-> lastRemove.calls + 1,
                            identifier |-> identifier,
                            before |-> stored,
                            returned |-> written]
  /\ UNCHANGED outsideUser

UserNext == RemoveGitUser

SpecRemoveUser == UserInit /\ [][UserNext]_vars

\* The profiles of the list other than the first one the identifier matches.
Remaining(users, identifier) ==
  LET first == FindIndex(users, identifier)
  IN SelectSeq([i \in 1..Len(users) |-> [at |-> i, user |-> users[i]]],
               LAMBDA e : e.at # first)

\* C30: the stored default is always null or the id of a stored profile;
\* a call that removed the default's profile left the default at the first
\* remaining profile or at null when none remains, a call that removed
\* another profile left the default as it was, and a call that matched no
\* profile (or could not write) left the file as it was and returned false.
C30_DefaultStaysStored ==
  /\ DefaultIsStored(stored)
  /\ lastRemove.calls > 0 =>
       LET before == lastRemove.before
           left == Remaining(before.gitUsers, lastRemove.identifier)
           first == FindIndex(before.gitUsers, lastRemove.identifier)
       IN IF first = 0 \/ ~lastRemove.returned
          THEN /\ stored = before
               /\ first = 0 => ~lastRemove.returned
          ELSE /\ stored.gitUsers = [i \in 1..Len(left) |-> left[i].user]
               /\ stored.defaultGitUser =
                    IF before.defaultGitUser # before.gitUsers[first].id
                    THEN before.defaultGitUser
                    ELSE IF Len(left) > 0 THEN left[1].user.id ELSE Null

\* C30: the default's profile, not the first of three, was removed by its
\* e-mail in another case, and the default moved to the first profile.
C30_Witness ==
  /\ lastRemove.calls > 0
  /\ lastRemove.returned
  /\ Len(lastRemove.before.gitUsers) = 3
  /\ lastRemove.identifier = "ME@HOST"
  /\ lastRemove.before.defaultGitUser = "id1"
  /\ lastRemove.before.gitUsers[1].id # "id1"
  /\ stored.defaultGitUser = stored.gitUsers[1].id

\* ---------------------------------------------------------------------
\* part_007 10-56 and 1866-1880: the debounced "refresh" broadcast.

\* setTimeout(..., 300): the delay in ticks of 100 ms.
DebounceTicks == 3
MaxCalls == 4

SseClientIds == {"c1", "c2"}

\* clearTimeout(handle): the timeout, if still pending, is dropped.
ClearTimeout(pending, handle) == {t \in pending : t.id # handle}

\* A variant of notifyClients that sets the new timeout without clearing
\* the pending one.
notifyClients_NoClear(pending, handle, id) ==
  [timeouts |-> pending \cup {[id |-> id, due |-> DebounceTicks]},
   watchDebounceTimer |-> id]

\* part_007 17-29: notifyClients; id is the handle setTimeout returns.
notifyClients(pending, handle, id) ==
  [timeouts |-> (IF handle # 0 THEN ClearTimeout(pending, handle) ELSE pending)
                  \cup {[id |-> id, due |-> DebounceTicks]},
   watchDebounceTimer |-> id]

outsideBounce == <<runVars, pipeVars, cmdVars, uiVars, ordVars, fileVars, convVars,
                   userVars>>

NoBroadcast == [to |-> {}, dropped |-> {}, clients |-> {}, sinceCall |-> 0, pendingCalls |-> 0]

\* The module is loaded: no client, no watcher, no timeout.
BounceInit ==
  /\ sseClients = {}
  /\ watchDebounceTimer = 0
  /\ timeouts = {}
  /\ fileWatcher = "none"
  /\ wire = [calls |-> 0, pendingCalls |-> 0, sinceCall |-> DebounceTicks,
             bursts |-> 0, broadcasts |-> 0, cancelled |-> 0, stopped |-> FALSE,
             last |-> NoBroadcast]
  /\ RunIdle
  /\ PipeIdle
  /\ CmdIdle
  /\ UiIdle
  /\ OrdIdle
  /\ FileIdle
  /\ ConvIdle
  /\ UserIdle

\* part_007 31-45: startFileWatcher; fs.watch may throw.
StartFileWatcher ==
  /\ fileWatcher = "none"
  /\ \E available \in BOOLEAN :
       fileWatcher' = IF available THEN "open" ELSE "unavailable"
  /\ UNCHANGED <<sseClients, watchDebounceTimer, timeouts, wire, outsideBounce>>

\* part_007 1866-1875: GET /api/events adds the response to the clients.
SseConnect ==
  /\ \E c \in SseClientIds \ sseClients : sseClients' = sseClients \cup {c}
  /\ UNCHANGED <<watchDebounceTimer, timeouts, fileWatcher, wire, outsideBounce>>

\* part_007 1876-1878: the request closes.
SseClose ==
  /\ \E c \in sseClients : sseClients' = sseClients \ {c}
  /\ UNCHANGED <<watchDebounceTimer, timeouts, fileWatcher, wire, outsideBounce>>

\* What a call of notifyClients adds to the observation.
Called(w) ==
  [w EXCEPT !.calls = @ + 1,
            !.pendingCalls = @ + 1,
            !.sinceCall = 0,
            !.stopped = FALSE,
            !.bursts = IF w.calls = 0 \/ w.sinceCall = DebounceTicks \/ w.stopped
                       THEN @ + 1 ELSE @]

\* part_007 33-39: a file changed; changes under .git and node_modules are
\* ignored.
WatchEvent ==
  /\ fileWatcher = "open"
  /\ wire.calls < MaxCalls
  /\ \E ignored \in BOOLEAN :
       IF ignored
       THEN UNCHANGED <<watchDebounceTimer, timeouts, wire>>
       ELSE LET set == notifyClients(timeouts, watchDebounceTimer, wire.calls + 1)
            IN /\ timeouts' = set.timeouts
               /\ watchDebounceTimer' = set.watchDebounceTimer
               /\ wire' = Called(wire)
  /\ UNCHANGED <<sseClients, fileWatcher, outsideBounce>>

\* part_007 1905 and 1924: the stage and unstage handlers notify.
ApiNotify ==
  /\ wire.calls < MaxCalls
  /\ LET set == notifyClients(timeouts, watchDebounceTimer, wire.calls + 1)
     IN /\ timeouts' = set.timeouts
        /\ watchDebounceTimer' = set.watchDebounceTimer
        /\ wire' = Called(wire)
  /\ UNCHANGED <<sseClients, fileWatcher, outsideBounce>>

\* 100 ms pass; a timeout that is due runs its callback (part_007 20-28):
\* every client is written to, and one whose write throws is deleted.
Tick ==
  /\ \E dropped \in SUBSET sseClients :
       LET fired == {t \in timeouts : t.due = 1}
           since == Min(wire.sinceCall + 1, DebounceTicks)
       IN /\ fired = {} => dropped = {}
          /\ timeouts' = {[id |-> t.id, due |-> t.due - 1] : t \in timeouts \ fired}
          /\ sseClients' = sseClients \ dropped
          /\ wire' = IF fired = {}
                     THEN [wire EXCEPT !.sinceCall = since]
                     ELSE [wire EXCEPT
                             !.sinceCall = since,
                             !.pendingCalls = 0,
                             !.broadcasts = @ + Cardinality(fired),
                             !.last = [to |-> sseClients \ dropped,
                                       dropped |-> dropped,
                                       clients |-> sseClients,
                                       sinceCall |-> since,
                                       pendingCalls |-> wire.pendingCalls]]
  /\ UNCHANGED <<watchDebounceTimer, fileWatcher, outsideBounce>>

\* part_007 47-56: stopFileWatcher.
StopFileWatcher ==
  /\ fileWatcher # "closed"
  /\ fileWatcher' = "closed"
  /\ timeouts' = IF watchDebounceTimer # 0
                 THEN ClearTimeout(timeouts, watchDebounceTimer) ELSE timeouts
  /\ watchDebounceTimer' = 0
  /\ wire' = [wire EXCEPT !.stopped = TRUE,
                          !.pendingCalls = 0,
                          !.cancelled = IF wire.pendingCalls > 0 THEN @ + 1 ELSE @]
  /\ UNCHANGED <<sseClients, outsideBounce>>

BounceNext ==
  \/ StartFileWatcher
  \/ SseConnect
  \/ SseClose
  \/ WatchEvent
  \/ ApiNotify
  \/ Tick
  \/ StopFileWatcher

SpecDebounce == BounceInit /\ [][BounceNext]_vars

\* C27: calls of notifyClients less than the delay apart are answered by
\* one broadcast: while calls wait for it exactly one timeout is pending,
\* due one delay after the last call; the broadcast went to every client
\* connected at that moment (one whose write threw aside); every burst was
\* answered once, is still waiting, or was cancelled by stopFileWatcher,
\* and after stopFileWatcher no timeout set before it is pending.
C27_OneBroadcastAfterBurst ==
  /\ wire.pendingCalls > 0 <=> timeouts # {}
  /\ \A t \in timeouts :
       /\ timeouts = {t}
       /\ t.id = watchDebounceTimer
       /\ t.due = DebounceTicks - wire.sinceCall
       /\ t.due > 0
  /\ wire.broadcasts > 0 =>
       /\ wire.last.sinceCall = DebounceTicks
       /\ wire.last.pendingCalls >= 1
       /\ wire.last.to = wire.last.clients \ wire.last.dropped
  /\ wire.bursts = wire.broadcasts + wire.cancelled + (IF timeouts # {} THEN 1 ELSE 0)
  /\ wire.stopped => timeouts = {}

\* C27: a burst of three calls was answered by one broadcast to both
\* clients, and a later burst was cancelled by stopFileWatcher.
C27_Witness ==
  /\ wire.calls = 4
  /\ wire.bursts = 2
  /\ wire.broadcasts = 1
  /\ wire.last.pendingCalls = 3
  /\ wire.last.to = SseClientIds
  /\ wire.cancelled = 1
  /\ wire.stopped

====
